---- MODULE Spec2Model ----
(***************************************************************************)
(* The announcement engine of polaris (src/app/rj): the fragment resolver  *)
(* (parse.rs), the script cache and its rendering (script.rs) and the      *)
(* Manager that holds the compiled cache (mod.rs).                         *)
(*                                                                         *)
(* A Rust String is modelled as a sequence of one-character strings, so    *)
(* that contains/replace/split_whitespace work on characters as they do in *)
(* the code.  A BTreeMap is a function whose domain is the key set; it is  *)
(* always walked in the order of the keys (SortSet).                       *)
(***************************************************************************)
EXTENDS Integers, Sequences, FiniteSets, TLC

VARIABLES
    user_opts,    \* parse: the UserAnnouncementOptions handed to from_user
    depth_limit,  \* parse: the depth_limit handed to from_user
    opts,         \* parse: the AnnouncementOptions under construction
    pc,           \* parse: the step of from_user that runs next
    result,       \* parse: "Pending", "Ok", "Panic" or the ParseError kind
    cache,        \* render: the ScriptCache get_announcement is called on
    song,         \* render: the Song handed to get_announcement
    call,         \* render: the locals and the position of get_announcement
    manager,      \* manager: the fields of the Manager
    saved,        \* manager: the RestorableUserSettings the caller holds
    ret,          \* manager: the last operation and what it returned
    before,       \* manager: the settings in force before each update whose
                  \*          RestorableUserSettings the caller holds
    lock,         \* announce: the RwLock around the Manager (index.rj_manager)
    requests,     \* announce: the position of each call of get_announcement
    updater       \* announce: the position of the thread that updates settings

parseVars == <<user_opts, depth_limit, opts, pc, result>>

renderVars == <<cache, song, call>>

managerVars == <<manager, saved, ret, before>>

announceVars == <<lock, requests, updater>>

vars == <<user_opts, depth_limit, opts, pc, result, cache, song, call,
          manager, saved, ret, before, lock, requests, updater>>

(***************************************************************************)
(* Strings                                                                 *)
(***************************************************************************)

\* let v = ...; the body F sees the value once computed.
With(v, F(_)) == F(v)

\* The characters of the model in the order of their code points; the last
\* one is outside ASCII and takes two bytes in a String.
AsciiOrder ==
    << " ", "^", "_", "a", "b", "c", "d", "e", "f", "g", "h", "i", "j", "k",
       "l", "m", "n", "o", "p", "q", "r", "s", "t", "u", "v", "w", "x", "y",
       "z", "é" >>

IndexOf(seq, x) == CHOOSE i \in 1..Len(seq) : seq[i] = x

\* Ord for u8
CharLess(c, d) == IndexOf(AsciiOrder, c) < IndexOf(AsciiOrder, d)

None == <<>>

Some(x) == <<x>>

SetMin(S) == CHOOSE x \in S : \A y \in S : x <= y

SetMax(S) == CHOOSE x \in S : \A y \in S : x >= y

\* Ord for String: byte-wise lexicographic.
RECURSIVE StrLess(_, _)
StrLess(a, b) ==
    IF a = <<>> THEN b # <<>>
    ELSE IF b = <<>> THEN FALSE
    ELSE IF a[1] = b[1] THEN StrLess(Tail(a), Tail(b))
    ELSE CharLess(a[1], b[1])

MinStr(S) == CHOOSE x \in S : \A y \in S : x = y \/ StrLess(x, y)

\* The keys of a BTreeMap / BTreeSet in iteration order.
RECURSIVE SortSet(_)
SortSet(S) ==
    IF S = {} THEN <<>>
    ELSE With(MinStr(S), LAMBDA m : <<m>> \o SortSet(S \ {m}))

RECURSIVE ConcatAll(_)
ConcatAll(ss) == IF ss = <<>> THEN <<>> ELSE Head(ss) \o ConcatAll(Tail(ss))

\* str::contains(pattern)
Contains(s, p) ==
    \E i \in 0..(Len(s) - Len(p)) : SubSeq(s, i + 1, i + Len(p)) = p

\* The indexes at which p starts in s.
Matches(s, p) ==
    {i \in 1..(Len(s) - Len(p) + 1) : SubSeq(s, i, i + Len(p) - 1) = p}

\* str::replace(from, to): every non-overlapping match, left to right.
\* from is never empty here (a delimited name or a word).
RECURSIVE Replace(_, _, _)
Replace(s, from, to) ==
    IF Matches(s, from) = {} THEN s
    ELSE With(SetMin(Matches(s, from)), LAMBDA i :
             SubSeq(s, 1, i - 1) \o to
                 \o Replace(SubSeq(s, i + Len(from), Len(s)), from, to))

IsWhitespace(c) == c = " "

\* The indexes at which a word of s starts, and the index at which the word
\* that starts at i ends.
WordStarts(s) ==
    {i \in 1..Len(s) :
        ~IsWhitespace(s[i]) /\ (i = 1 \/ IsWhitespace(s[i - 1]))}

WordEnd(s, i) ==
    SetMin({j \in i..Len(s) : j = Len(s) \/ IsWhitespace(s[j + 1])})

NthOf(starts, k) ==
    CHOOSE i \in starts : Cardinality({j \in starts : j < i}) = k - 1

WordAt(s, i) == SubSeq(s, i, WordEnd(s, i))

WordsFrom(s, starts) ==
    [k \in 1..Cardinality(starts) |-> WordAt(s, NthOf(starts, k))]

\* str::split_whitespace, collected
SplitWhitespace(s) == WordsFrom(s, WordStarts(s))

\* str::trim
TrimStart(s) ==
    IF \A i \in 1..Len(s) : IsWhitespace(s[i]) THEN <<>>
    ELSE SubSeq(s, SetMin({i \in 1..Len(s) : ~IsWhitespace(s[i])}), Len(s))

TrimEnd(s) ==
    IF \A i \in 1..Len(s) : IsWhitespace(s[i]) THEN <<>>
    ELSE SubSeq(s, 1, SetMax({i \in 1..Len(s) : ~IsWhitespace(s[i])}))

Trim(s) == TrimEnd(TrimStart(s))

\* char::len_utf8
len_utf8(c) == IF c = "é" THEN 2 ELSE 1

\* str::len: the number of bytes
ByteLen(s) == Len(s) + Len(SelectSeq(s, LAMBDA c : len_utf8(c) = 2))

SeqContains(seq, x) == \E i \in 1..Len(seq) : seq[i] = x

(***************************************************************************)
(* Maps                                                                    *)
(***************************************************************************)

EmptyMap == <<>>

MapInsert(m, k, v) == [x \in (DOMAIN m) \cup {k} |-> IF x = k THEN v ELSE m[x]]

MapRemove(m, k) == [x \in (DOMAIN m) \ {k} |-> m[x]]

(***************************************************************************)
(* parse.rs: the reserved vocabulary                                       *)
(***************************************************************************)

DEFAULT_DEPTH_LIMIT == 5

FIELD_DELIMITER == "^"

RESERVED_FIELD_ID == <<"i", "d">>
RESERVED_FIELD_PATH == <<"p", "a", "t", "h">>
RESERVED_FIELD_PARENT == <<"p", "a", "r", "e", "n", "t">>
RESERVED_FIELD_TRACK_NUMBER ==
    <<"t", "r", "a", "c", "k", "_", "n", "u", "m", "b", "e", "r">>
RESERVED_FIELD_DISC_NUMBER ==
    <<"d", "i", "s", "c", "_", "n", "u", "m", "b", "e", "r">>
RESERVED_FIELD_TITLE == <<"t", "i", "t", "l", "e">>
RESERVED_FIELD_ARTIST == <<"a", "r", "t", "i", "s", "t">>
RESERVED_FIELD_ALBUM_ARTIST ==
    <<"a", "l", "b", "u", "m", "_", "a", "r", "t", "i", "s", "t">>
RESERVED_FIELD_YEAR == <<"y", "e", "a", "r">>
RESERVED_FIELD_ALBUM == <<"a", "l", "b", "u", "m">>
RESERVED_FIELD_ARTWORK == <<"a", "r", "t", "w", "o", "r", "k">>
RESERVED_FIELD_DURATION == <<"d", "u", "r", "a", "t", "i", "o", "n">>
RESERVED_FIELD_LYRICIST == <<"l", "y", "r", "i", "c", "i", "s", "t">>
RESERVED_FIELD_COMPOSER == <<"c", "o", "m", "p", "o", "s", "e", "r">>
RESERVED_FIELD_GENRE == <<"g", "e", "n", "r", "e">>
RESERVED_FIELD_LABEL == <<"l", "a", "b", "e", "l">>

RESERVED_FIELD_NAMES ==
    << RESERVED_FIELD_ID, RESERVED_FIELD_PATH, RESERVED_FIELD_PARENT,
       RESERVED_FIELD_TRACK_NUMBER, RESERVED_FIELD_DISC_NUMBER,
       RESERVED_FIELD_TITLE, RESERVED_FIELD_ARTIST,
       RESERVED_FIELD_ALBUM_ARTIST, RESERVED_FIELD_YEAR, RESERVED_FIELD_ALBUM,
       RESERVED_FIELD_ARTWORK, RESERVED_FIELD_DURATION,
       RESERVED_FIELD_LYRICIST, RESERVED_FIELD_COMPOSER, RESERVED_FIELD_GENRE,
       RESERVED_FIELD_LABEL >>

get_delimited_name(name) == <<FIELD_DELIMITER>> \o name \o <<FIELD_DELIMITER>>

strip_delimiters(name) == SelectSeq(name, LAMBDA c : c # FIELD_DELIMITER)

is_reserved(name) == SeqContains(RESERVED_FIELD_NAMES, name)

\* (count, (first, last)), the indexes counted from 0
count_delimiters(word) ==
    With({i \in 1..Len(word) : word[i] = FIELD_DELIMITER}, LAMBDA at :
        [ count |-> Cardinality(at),
          first |-> IF at = {} THEN 0 ELSE SetMin(at) - 1,
          last  |-> IF at = {} THEN 0 ELSE SetMax(at) - 1 ])

\* Result<bool, usize>: [ok |-> TRUE, val] is Ok(val), [ok |-> FALSE, count]
\* is Err(count).
is_field_name(word) ==
    With(count_delimiters(word), LAMBDA c :
        IF c.count = 0 THEN [ok |-> TRUE, val |-> FALSE, count |-> 0]
        ELSE IF c.count # 2 THEN [ok |-> FALSE, val |-> FALSE, count |-> c.count]
        ELSE IF c.first > 0 \/ c.last < ByteLen(word) - 1
             THEN [ok |-> FALSE, val |-> FALSE, count |-> c.count]
        ELSE [ok |-> TRUE, val |-> TRUE, count |-> c.count])

(***************************************************************************)
(* parse.rs: Field                                                         *)
(***************************************************************************)

first_of(hits) == IF hits = {} THEN None ELSE Some(MinStr(hits))

\* Field_has_self_dependency with == in place of contains.
Field_has_self_dependency_whole_fragment(field) ==
    first_of({f \in DOMAIN field.fragments : f = field.delimited_name})

\* Option<String>: the first fragment, in key order, that contains the
\* field's own delimited name.
Field_has_self_dependency(field) ==
    first_of({f \in DOMAIN field.fragments : Contains(f, field.delimited_name)})

\* The loop of replace_and_keep over self.fragments, building new_fragments;
\* keys are the fragments that contain from, in key order (the loop does
\* nothing for the others).
RECURSIVE replace_and_keep_loop(_, _, _, _, _)
replace_and_keep_loop(keys, fragments, new_fragments, from, to) ==
    IF keys = <<>> THEN new_fragments
    ELSE replace_and_keep_loop(Tail(keys), fragments,
             [MapInsert(new_fragments, Replace(Head(keys), from, to),
                        fragments[Head(keys)])
                 EXCEPT ![Head(keys)] = TRUE],
             from, to)

\* replace_and_keep that leaves a self-dependent field alone and answers Ok.
replace_and_keep_skips_self_dependent(field, from, to) ==
    IF Field_has_self_dependency(field) # None
    THEN [res |-> "Ok", field |-> field]
    ELSE [res |-> "Ok",
          field |-> [field EXCEPT !.fragments =
              replace_and_keep_loop(
                  SortSet({f \in DOMAIN field.fragments : Contains(f, from)}),
                  field.fragments, field.fragments, from, to)]]

\* replace_and_keep that takes a product it holds already for a sign of a
\* cycle.
replace_and_keep_reports_repeat(field, from, to) ==
    IF \/ Field_has_self_dependency(field) # None
       \/ \E f \in DOMAIN field.fragments :
             Contains(f, from) /\ Replace(f, from, to) \in DOMAIN field.fragments
    THEN [res |-> "RecursiveDependency", field |-> field]
    ELSE [res |-> "Ok",
          field |-> [field EXCEPT !.fragments =
              replace_and_keep_loop(
                  SortSet({f \in DOMAIN field.fragments : Contains(f, from)}),
                  field.fragments, field.fragments, from, to)]]

\* Result<(), Error> with the field as it is left.
replace_and_keep(field, from, to) ==
    IF Field_has_self_dependency(field) # None
    THEN [res |-> "RecursiveDependency", field |-> field]
    ELSE [res |-> "Ok",
          field |-> [field EXCEPT !.fragments =
              replace_and_keep_loop(
                  SortSet({f \in DOMAIN field.fragments : Contains(f, from)}),
                  field.fragments, field.fragments, from, to)]]

\* is_field_name(word).unwrap() && !(map.contains_key(stripped) || is_reserved(stripped))
name_is_unresolved_in(stripped_name, map) ==
    ~(stripped_name \in DOMAIN map \/ is_reserved(stripped_name))

word_is_unresolved_in(word, map) ==
    is_field_name(word).val /\ name_is_unresolved_in(strip_delimiters(word), map)

\* some unwrap of is_field_name meets an Err
words_panic(ws) == \E i \in 1..Len(ws) : ~is_field_name(ws[i]).ok

\* resolved is still true after the loop over the words
words_resolved(ws, map) ==
    \A i \in 1..Len(ws) : ~word_is_unresolved_in(ws[i], map)

\* [panic, val]: panic when an unwrap of is_field_name meets an Err.
each_fragment_is_resolved_once(field, map) ==
    [panic |-> \E f \in DOMAIN field.fragments : words_panic(SplitWhitespace(f)),
     val |-> \E f \in DOMAIN field.fragments :
                 words_resolved(SplitWhitespace(f), map)]

(***************************************************************************)
(* parse.rs: AnnouncementOptions                                           *)
(***************************************************************************)

\* The steps of from_user answer [res, opts]: res is "Ok", the kind of the
\* ParseError returned, or "Panic" (an unwrap or a missing key aborted).
Ret(res, o) == [res |-> res, opts |-> o]

\* The set of a UserField's fragments, each with used = false.
RECURSIVE fragment_set(_, _)
fragment_set(fragments, set) ==
    IF fragments = <<>> THEN set
    ELSE fragment_set(Tail(fragments), MapInsert(set, Head(fragments), FALSE))

new_field(user_field) ==
    [ delimited_name |-> get_delimited_name(user_field.name),
      whole |-> user_field.whole,
      fragments |-> fragment_set(user_field.fragments, EmptyMap) ]

RECURSIVE build_map_patterns(_, _)
build_map_patterns(patterns, neutral) ==
    IF patterns = <<>> THEN [res |-> "Ok", neutral |-> neutral]
    ELSE IF Head(patterns).name \in DOMAIN neutral
    THEN [res |-> "DuplicateFragment", neutral |-> neutral]
    ELSE build_map_patterns(Tail(patterns),
             MapInsert(neutral, Head(patterns).name, new_field(Head(patterns))))

\* build_map's tense loop with the test against the tense map left out: a
\* later TensedUserField replaces an earlier one of the same name.
RECURSIVE build_map_tense_overwrites(_, _, _)
build_map_tense_overwrites(tense_patterns, neutral, tense) ==
    IF tense_patterns = <<>> THEN [res |-> "Ok", tense |-> tense]
    ELSE IF Head(tense_patterns).name \in DOMAIN neutral
    THEN [res |-> "DuplicateFragment", tense |-> tense]
    ELSE build_map_tense_overwrites(Tail(tense_patterns), neutral,
             MapInsert(tense, Head(tense_patterns).name, Head(tense_patterns)))

RECURSIVE build_map_tense(_, _, _)
build_map_tense(tense_patterns, neutral, tense) ==
    IF tense_patterns = <<>> THEN [res |-> "Ok", tense |-> tense]
    ELSE IF \/ Head(tense_patterns).name \in DOMAIN neutral
            \/ Head(tense_patterns).name \in DOMAIN tense
    THEN [res |-> "DuplicateFragment", tense |-> tense]
    ELSE build_map_tense(Tail(tense_patterns), neutral,
             MapInsert(tense, Head(tense_patterns).name, Head(tense_patterns)))

build_map(o, uo) ==
    With(build_map_patterns(uo.patterns, o.neutral), LAMBDA n :
        IF n.res # "Ok" \/ uo.tense_patterns = None
        THEN Ret(n.res, [o EXCEPT !.neutral = n.neutral])
        ELSE With(build_map_tense(uo.tense_patterns[1], n.neutral, o.tense),
                  LAMBDA t : Ret(t.res, [o EXCEPT !.neutral = n.neutral,
                                                  !.tense = t.tense])))

keyed_fragments(name, frs) ==
    [j \in 1..Len(frs) |-> [name |-> name, fragment |-> frs[j]]]

fragments_in_order(neutral, names) ==
    ConcatAll([i \in 1..Len(names) |->
        keyed_fragments(names[i], SortSet(DOMAIN neutral[names[i]].fragments))])

\* (name, fragment) of every fragment of the neutral map, in iteration order
all_fragments(neutral) == fragments_in_order(neutral, SortSet(DOMAIN neutral))

keyed_words(item, ws) ==
    [k \in 1..Len(ws) |->
        [name |-> item.name, fragment |-> item.fragment, word |-> ws[k]]]

words_in_order(fs) ==
    ConcatAll([i \in 1..Len(fs) |->
        keyed_words(fs[i], SplitWhitespace(fs[i].fragment))])

\* (name, fragment, word) of every word, in iteration order
all_words(neutral) == words_in_order(all_fragments(neutral))

\* The answer of the first closure call that breaks, default_return if none
\* does; rs are the answers [brk, ret] in iteration order.
first_break(rs, default_return) ==
    With({i \in 1..Len(rs) : rs[i].brk}, LAMBDA hits :
        IF hits = {} THEN default_return ELSE rs[SetMin(hits)].ret)

for_fragments(items, neutral, fun(_, _, _)) ==
    [i \in 1..Len(items) |->
        fun(items[i].name, neutral[items[i].name], items[i].fragment)]

for_words(items, neutral, fun(_, _, _, _)) ==
    [i \in 1..Len(items) |->
        fun(items[i].name, neutral[items[i].name], items[i].fragment,
            items[i].word)]

iterate_all_fragments(neutral, fun(_, _, _), default_return) ==
    first_break(for_fragments(all_fragments(neutral), neutral, fun),
                default_return)

iterate_all_words(neutral, fun(_, _, _, _), default_return) ==
    first_break(for_words(all_words(neutral), neutral, fun), default_return)

uses_reserved_name_internal(map) ==
    IF \E name \in DOMAIN map : is_reserved(name)
    THEN "FragmentUsesReservedName" ELSE "Ok"

\* uses_reserved_name that looks at the neutral map only.
uses_reserved_name_neutral_only(o) == uses_reserved_name_internal(o.neutral)

uses_reserved_name(o) ==
    IF uses_reserved_name_internal(o.neutral) # "Ok"
    THEN "FragmentUsesReservedName"
    ELSE uses_reserved_name_internal(o.tense)

has_self_dependency(o) ==
    IF \E name \in DOMAIN o.neutral :
          Field_has_self_dependency(o.neutral[name]) # None
    THEN "SelfRecursion" ELSE "Ok"

has_delimiter_only_at_start_end(o) ==
    LET fun(name, field, fragment, word) ==
            With(is_field_name(word), LAMBDA x :
                IF ~x.ok
                THEN IF x.count # 2
                     THEN [brk |-> TRUE, ret |-> "OddNumberOfDelimiters"]
                     ELSE [brk |-> TRUE, ret |-> "InterleavedDelimiter"]
                ELSE [brk |-> FALSE, ret |-> "Ok"])
    IN  iterate_all_words(o.neutral, fun, "Ok")

name_is_missing(field_name, o) ==
    /\ field_name \notin DOMAIN o.neutral
    /\ field_name \notin DOMAIN o.tense
    /\ ~is_reserved(field_name)

\* verify_missing_name that looks only at fragments that are one reference.
verify_missing_name_whole_fragment(o) ==
    LET fun(name, field, fragment) ==
            With(is_field_name(fragment), LAMBDA x :
                IF x.ok /\ x.val /\ name_is_missing(strip_delimiters(fragment), o)
                THEN [brk |-> TRUE, ret |-> "ExpansionFailed"]
                ELSE [brk |-> FALSE, ret |-> "Ok"])
    IN  iterate_all_fragments(o.neutral, fun, "Ok")

verify_missing_name(o) ==
    LET fun(name, field, fragment, word) ==
            With(is_field_name(word), LAMBDA x :
                IF ~x.ok THEN [brk |-> TRUE, ret |-> "Panic"]
                ELSE IF x.val /\ name_is_missing(strip_delimiters(word), o)
                     THEN [brk |-> TRUE, ret |-> "ExpansionFailed"]
                     ELSE [brk |-> FALSE, ret |-> "Ok"])
    IN  iterate_all_words(o.neutral, fun, "Ok")

\* "true", "false", or "Panic" when the unwrap meets a malformed word first
has_unresolved(neutral) ==
    LET fun(name, field, fragment, word) ==
            With(is_field_name(word), LAMBDA x :
                IF ~x.ok THEN [brk |-> TRUE, ret |-> "Panic"]
                ELSE IF x.val /\ ~is_reserved(strip_delimiters(word))
                     THEN [brk |-> TRUE, ret |-> "true"]
                     ELSE [brk |-> FALSE, ret |-> "false"])
    IN  iterate_all_words(neutral, fun, "false")

visits_of(item, names) ==
    SelectSeq([k \in 1..Len(names) |->
                  [tmp_name |-> item.name, tmp_fragment |-> item.fragment,
                   map_name |-> names[k]]],
              LAMBDA v : v.map_name # v.tmp_name)

visits_in_order(fs, names) ==
    ConcatAll([i \in 1..Len(fs) |-> visits_of(fs[i], names)])

Reverse(seq) == [i \in 1..Len(seq) |-> seq[Len(seq) + 1 - i]]

\* One pass of deflate that takes the fragments of temp from the last name
\* to the first.
deflate_visits_last_name_first(temp) ==
    visits_in_order(Reverse(all_fragments(temp)), SortSet(DOMAIN temp))

\* The three nested loops of one pass of deflate, as the list of
\* (tmp_name, tmp_fragment, map_name) they visit; the keys of the neutral map
\* do not change during deflate.
deflate_visits(temp) ==
    visits_in_order(all_fragments(temp), SortSet(DOMAIN temp))

\* One visit of the innermost loop body of deflate.
deflate_visit(v, temp, neutral) ==
    With(replace_and_keep(neutral[v.map_name],
                          temp[v.tmp_name].delimited_name, v.tmp_fragment),
         LAMBDA r :
             IF r.res # "Ok" THEN [res |-> r.res, neutral |-> neutral]
             ELSE [res |-> "Ok",
                   neutral |-> [neutral EXCEPT ![v.map_name] = r.field]])

\* The visits in their order, the first failure ending the pass (the list
\* is taken in two halves to keep the evaluation shallow).
RECURSIVE deflate_pass(_, _, _)
deflate_pass(visits, temp, neutral) ==
    IF visits = <<>> THEN [res |-> "Ok", neutral |-> neutral]
    ELSE IF Len(visits) = 1 THEN deflate_visit(visits[1], temp, neutral)
    ELSE With(deflate_pass(SubSeq(visits, 1, Len(visits) \div 2), temp, neutral),
              LAMBDA r :
                  IF r.res # "Ok" THEN r
                  ELSE deflate_pass(SubSeq(visits, Len(visits) \div 2 + 1,
                                           Len(visits)),
                                    temp, r.neutral))

RECURSIVE deflate_loop(_, _, _)
deflate_loop(neutral, i, limit) ==
    IF i >= limit THEN [res |-> "Ok", neutral |-> neutral]
    ELSE With(has_unresolved(neutral), LAMBDA u :
             IF u = "Panic" THEN [res |-> "Panic", neutral |-> neutral]
             ELSE IF u = "false" THEN [res |-> "Ok", neutral |-> neutral]
             ELSE With(deflate_pass(deflate_visits(neutral), neutral, neutral),
                       LAMBDA r : IF r.res # "Ok" THEN r
                                  ELSE deflate_loop(r.neutral, i + 1, limit)))

with_neutral(o, r) == Ret(r.res, [o EXCEPT !.neutral = r.neutral])

\* deflate with the loop 1..depth_limit (one pass less).
deflate_one_pass_less(o, limit) ==
    with_neutral(o, deflate_loop(o.neutral, 1, limit))

\* deflate with the loop 0..=depth_limit (one pass more).
deflate_one_pass_more(o, limit) ==
    with_neutral(o, deflate_loop(o.neutral, 0, limit + 1))

deflate(o, limit) == with_neutral(o, deflate_loop(o.neutral, 0, limit))

entry_of(map, name, field) ==
    IF name \in DOMAIN map THEN map
    ELSE MapInsert(map, name,
             [ delimited_name |-> field.delimited_name,
               whole |-> field.whole, fragments |-> EmptyMap ])

insert_fragment(m, name, fragment) ==
    [m EXCEPT ![name].fragments = MapInsert(m[name].fragments, fragment, FALSE)]

add_and_insert(map, name, fragment, field) ==
    insert_fragment(entry_of(map, name, field), name, fragment)

\* The loop with every replacement made on the fragment as it came, not on
\* the form built so far.
RECURSIVE tense_fragment_from_original(_, _, _, _, _)
tense_fragment_from_original(names, tense, fragment, acc, past) ==
    IF names = <<>> THEN acc
    ELSE IF ~Contains(fragment, get_delimited_name(Head(names)))
    THEN tense_fragment_from_original(Tail(names), tense, fragment, acc, past)
    ELSE tense_fragment_from_original(Tail(names), tense, fragment,
             Replace(fragment, get_delimited_name(Head(names)),
                     IF past THEN tense[Head(names)].past
                     ELSE tense[Head(names)].present),
             past)

\* The loop over self.tense of deflate_tense's closure; past is TRUE for the
\* past form and FALSE for the present form.
RECURSIVE tense_fragment(_, _, _, _, _)
tense_fragment(names, tense, fragment, acc, past) ==
    IF names = <<>> THEN acc
    ELSE IF ~Contains(fragment, get_delimited_name(Head(names)))
    THEN tense_fragment(Tail(names), tense, fragment, acc, past)
    ELSE tense_fragment(Tail(names), tense, fragment,
             Replace(acc, get_delimited_name(Head(names)),
                     IF past THEN tense[Head(names)].past
                     ELSE tense[Head(names)].present),
             past)

RECURSIVE add_all(_, _, _)
add_all(map, items, neutral) ==
    IF items = <<>> THEN map
    ELSE add_all(add_and_insert(map, Head(items).name, Head(items).fragment,
                                neutral[Head(items).name]),
                 Tail(items), neutral)

\* tmp_past (past = TRUE) and tmp_present (past = FALSE)
tense_items(items, tnames, tense, past) ==
    [i \in 1..Len(items) |->
        [name |-> items[i].name,
         fragment |-> tense_fragment(tnames, tense, items[i].fragment,
                                     items[i].fragment, past)]]

\* *used = true on every fragment that names a tense field
mark_used(neutral, tense) ==
    [n \in DOMAIN neutral |->
        [neutral[n] EXCEPT !.fragments =
            [f \in DOMAIN neutral[n].fragments |->
                IF \E t \in DOMAIN tense : Contains(f, get_delimited_name(t))
                THEN TRUE ELSE neutral[n].fragments[f]]]]

deflate_tense_with(o, items, tnames, neutral) ==
    Ret("Ok",
        [o EXCEPT !.neutral = neutral,
                  !.past = add_all(o.past,
                               tense_items(items, tnames, o.tense, TRUE), neutral),
                  !.present = add_all(o.present,
                               tense_items(items, tnames, o.tense, FALSE), neutral)])

deflate_tense(o) ==
    deflate_tense_with(o, all_fragments(o.neutral), SortSet(DOMAIN o.tense),
                       mark_used(o.neutral, o.tense))

\* is_field_name(word).unwrap() && !is_reserved(&strip_delimiters(word))
is_unresolved_word(word) ==
    is_field_name(word).val /\ ~is_reserved(strip_delimiters(word))

unresolved_words(ws) == {k \in 1..Len(ws) : is_unresolved_word(ws[k])}

malformed_words(ws) == {k \in 1..Len(ws) : ~is_field_name(ws[k]).ok}

\* the inner loop pushes the fragment and breaks at its first unresolved word
pushed_at(hit, bad) == hit # {} /\ (bad = {} \/ SetMin(hit) < SetMin(bad))

\* the unwrap meets a malformed word before that
aborts_at(hit, bad) == bad # {} /\ (hit = {} \/ SetMin(bad) < SetMin(hit))

fragment_pushed(f) ==
    With(SplitWhitespace(f), LAMBDA ws :
        pushed_at(unresolved_words(ws), malformed_words(ws)))

fragment_aborts(f) ==
    With(SplitWhitespace(f), LAMBDA ws :
        aborts_at(unresolved_words(ws), malformed_words(ws)))

\* [panic, val]: val is the set of (name, fragment) with a non-reserved
\* reference; panic when the unwrap meets a malformed word before the first
\* such reference of a fragment (the inner loop breaks there).
get_unresolved(map) ==
    [panic |-> \E n \in DOMAIN map :
                   \E f \in DOMAIN map[n].fragments : fragment_aborts(f),
     val |-> UNION {{<<n, f>> : f \in {g \in DOMAIN map[n].fragments :
                                           fragment_pushed(g)}} :
                    n \in DOMAIN map}]

field_results(o, names) ==
    [i \in 1..Len(names) |->
        each_fragment_is_resolved_once(o.neutral[names[i]], o.tense)]

first_failure(rs) ==
    With({i \in 1..Len(rs) : rs[i].panic \/ ~rs[i].val}, LAMBDA stop :
        IF stop = {} THEN "Ok"
        ELSE IF rs[SetMin(stop)].panic THEN "Panic" ELSE "TooDeep")

each_field_is_resolved_once(o, depth) ==
    first_failure(field_results(o, SortSet(DOMAIN o.neutral)))

\* remove_unresolved_internal that removes nothing.
remove_unresolved_internal_keeps(map, to_remove) == map

remove_unresolved_internal(map, to_remove) ==
    [n \in DOMAIN map |->
        [map[n] EXCEPT !.fragments =
            [f \in {g \in DOMAIN map[n].fragments : <<n, g>> \notin to_remove} |->
                map[n].fragments[f]]]]

\* to_remove of the neutral map: the fragments with an unresolved word
to_remove_of(items) ==
    {<<items[i].name, items[i].fragment>> :
        i \in {j \in 1..Len(items) : is_unresolved_word(items[j].word)}}

\* The second half of remove_unresolved: the past and present maps.
remove_unresolved_tenses(o, neutral, past_remove, present_remove) ==
    IF past_remove.panic THEN Ret("Panic", [o EXCEPT !.neutral = neutral])
    ELSE IF present_remove.panic
    THEN Ret("Panic",
             [o EXCEPT !.neutral = neutral,
                       !.past = remove_unresolved_internal(o.past, past_remove.val)])
    ELSE Ret("Ok",
             [o EXCEPT !.neutral = neutral,
                       !.past = remove_unresolved_internal(o.past, past_remove.val),
                       !.present = remove_unresolved_internal(o.present,
                                                             present_remove.val)])

remove_unresolved(o, depth) ==
    LET fun(name, field, fragment, word) ==
            IF ~is_field_name(word).ok THEN [brk |-> TRUE, ret |-> "Panic"]
            ELSE IF is_unresolved_word(word) /\ ~field.fragments[fragment]
                 THEN [brk |-> TRUE, ret |-> "TooDeep"]
                 ELSE [brk |-> FALSE, ret |-> "Ok"]
    IN  With(iterate_all_words(o.neutral, fun, "Ok"), LAMBDA res :
            IF res # "Ok" THEN Ret(res, o)
            ELSE remove_unresolved_tenses(o,
                     remove_unresolved_internal(o.neutral,
                                                to_remove_of(all_words(o.neutral))),
                     get_unresolved(o.past), get_unresolved(o.present)))

\* FieldsToAnnounce::default (user_opts.rs)
FieldsToAnnounce_default ==
    [ track_number |-> "Exclude", disc_number |-> "Exclude", title |-> "Required",
      artist |-> "Required", album_artist |-> "Optional", year |-> "Optional",
      album |-> "Required", duration |-> "Exclude", lyricist |-> "Required",
      composer |-> "Required", genre |-> "Optional", label |-> "Exclude" ]

\* The value from_user starts from.
new_opts(uo) ==
    [ present |-> EmptyMap, past |-> EmptyMap, neutral |-> EmptyMap,
      tense |-> EmptyMap,
      tags_to_announce |-> IF uo.tags_to_announce = None
                           THEN FieldsToAnnounce_default
                           ELSE uo.tags_to_announce[1] ]

\* The steps of from_user in the order it runs them.
Steps ==
    << "build_map", "has_self_dependency", "uses_reserved_name",
       "has_delimiter_only_at_start_end", "verify_missing_name", "deflate",
       "deflate_tense", "each_field_is_resolved_once", "remove_unresolved" >>

step(name, o, uo, limit) ==
    CASE name = "build_map" -> build_map(o, uo)
      [] name = "has_self_dependency" -> Ret(has_self_dependency(o), o)
      [] name = "uses_reserved_name" -> Ret(uses_reserved_name(o), o)
      [] name = "has_delimiter_only_at_start_end" ->
             Ret(has_delimiter_only_at_start_end(o), o)
      [] name = "verify_missing_name" -> Ret(verify_missing_name(o), o)
      [] name = "deflate" -> deflate(o, limit)
      [] name = "deflate_tense" -> deflate_tense(o)
      [] name = "each_field_is_resolved_once" ->
             Ret(each_field_is_resolved_once(o, limit), o)
      [] name = "remove_unresolved" -> remove_unresolved(o, limit)

RECURSIVE from_user_from(_, _, _, _)
from_user_from(i, o, uo, limit) ==
    IF i > Len(Steps) THEN Ret("Ok", o)
    ELSE With(step(Steps[i], o, uo, limit), LAMBDA r :
             IF r.res # "Ok" THEN r
             ELSE from_user_from(i + 1, r.opts, uo, limit))

\* Result<Self, Error>: [res, opts]; opts is the value of Ok.
from_user(uo, limit) == from_user_from(1, new_opts(uo), uo, limit)

(***************************************************************************)
(* from_user as a process: one action per step of its pipeline             *)
(***************************************************************************)

\* The bounds of the inputs.
MaxFrags == 2

MaxDepth == 2

MaxChain == 4

MaxChainDepth == 4

Str_a == <<"a">>
Str_b == <<"b">>
Str_t == <<"t">>
Str_c == <<"c">>
Str_d == <<"d">>
Str_e == <<"e">>
Str_x == <<"x">>

\* The fragments a generated UserField draws from: a literal, references to
\* the user fields, a tense reference, a reserved reference, two references
\* in one fragment, and a malformed word.
FragmentPool ==
    << Str_x,
       get_delimited_name(Str_a),
       get_delimited_name(Str_b),
       get_delimited_name(Str_t),
       get_delimited_name(RESERVED_FIELD_ID),
       get_delimited_name(Str_b) \o <<" ">> \o get_delimited_name(Str_t),
       <<"x", "^">> >>

FieldNames == {Str_a, Str_b, RESERVED_FIELD_ID}

\* The strictly increasing index sequences of at most k indexes out of 1..n.
IncSeqs(n, k) ==
    {s \in UNION {[1..m -> 1..n] : m \in 0..k} :
        \A i \in 1..Len(s) : \A j \in 1..Len(s) : i < j => s[i] < s[j]}

UserFields ==
    {[name |-> n, whole |-> TRUE,
      fragments |-> [i \in 1..Len(s) |-> FragmentPool[s[i]]]] :
        n \in FieldNames, s \in IncSeqs(Len(FragmentPool), MaxFrags)}

TenseChoices ==
    { None,
      Some(<<[name |-> Str_t, past |-> <<"w">>, present |-> <<"i">>]>>),
      Some(<<[name |-> Str_a,
              past |-> get_delimited_name(Str_b),
              present |-> get_delimited_name(RESERVED_FIELD_ID)]>>) }

\* A pattern list of no, one or two UserFields (any names, so that a name can
\* occur twice).
UserModels ==
    [ patterns : {<<>>} \cup {<<f>> : f \in UserFields}
                        \cup {<<f, g>> : f \in UserFields, g \in UserFields},
      tense_patterns : TenseChoices,
      conjunctions : {None},
      tags_to_announce : {None} ]

\* No call of from_user / get_announcement and no Manager.
ParseIdle ==
    /\ user_opts = None
    /\ depth_limit = 0
    /\ opts = None
    /\ pc = "idle"
    /\ result = "Pending"

RenderIdle ==
    /\ cache = None
    /\ song = None
    /\ call = None

ManagerIdle ==
    /\ manager = None
    /\ saved = <<>>
    /\ ret = None
    /\ before = <<>>

AnnounceIdle ==
    /\ lock = None
    /\ requests = <<>>
    /\ updater = "idle"

Start(uo, limit) ==
    /\ user_opts = uo
    /\ depth_limit = limit
    /\ opts = new_opts(uo)
    /\ pc = Steps[1]
    /\ result = "Pending"
    /\ RenderIdle
    /\ ManagerIdle
    /\ AnnounceIdle

InitParse == \E uo \in UserModels : \E limit \in 0..MaxDepth : Start(uo, limit)

\* from_user without the ? on its steps: an error of a step is dropped and
\* the next step runs; only the last step's answer is returned.
Advance_without_question_mark(i, r) ==
    /\ opts' = r.opts
    /\ IF i = Len(Steps) THEN pc' = "done" /\ result' = r.res
       ELSE pc' = Steps[i + 1] /\ result' = "Pending"
    /\ UNCHANGED <<user_opts, depth_limit, renderVars, managerVars, announceVars>>

\* The step named Steps[i] has answered r: an error ends from_user, Ok moves
\* on to the next step, and the Ok of the last step is the Ok of from_user.
Advance(i, r) ==
    /\ opts' = r.opts
    /\ IF r.res # "Ok" THEN pc' = "done" /\ result' = r.res
       ELSE IF i = Len(Steps) THEN pc' = "done" /\ result' = "Ok"
       ELSE pc' = Steps[i + 1] /\ result' = "Pending"
    /\ UNCHANGED <<user_opts, depth_limit, renderVars, managerVars, announceVars>>

BuildMap ==
    /\ pc = "build_map"
    /\ Advance(1, build_map(opts, user_opts))

HasSelfDependency ==
    /\ pc = "has_self_dependency"
    /\ Advance(2, Ret(has_self_dependency(opts), opts))

UsesReservedName ==
    /\ pc = "uses_reserved_name"
    /\ Advance(3, Ret(uses_reserved_name(opts), opts))

HasDelimiterOnlyAtStartEnd ==
    /\ pc = "has_delimiter_only_at_start_end"
    /\ Advance(4, Ret(has_delimiter_only_at_start_end(opts), opts))

VerifyMissingName ==
    /\ pc = "verify_missing_name"
    /\ Advance(5, Ret(verify_missing_name(opts), opts))

Deflate ==
    /\ pc = "deflate"
    /\ Advance(6, deflate(opts, depth_limit))

DeflateTense ==
    /\ pc = "deflate_tense"
    /\ Advance(7, deflate_tense(opts))

EachFieldIsResolvedOnce ==
    /\ pc = "each_field_is_resolved_once"
    /\ Advance(8, Ret(each_field_is_resolved_once(opts, depth_limit), opts))

RemoveUnresolved ==
    /\ pc = "remove_unresolved"
    /\ Advance(9, remove_unresolved(opts, depth_limit))

NextParse ==
    \/ BuildMap
    \/ HasSelfDependency
    \/ UsesReservedName
    \/ HasDelimiterOnlyAtStartEnd
    \/ VerifyMissingName
    \/ Deflate
    \/ DeflateTense
    \/ EachFieldIsResolvedOnce
    \/ RemoveUnresolved

SpecParse == InitParse /\ [][NextParse]_vars

(***************************************************************************)
(* Reference graphs: chains and cycles of user fields                      *)
(***************************************************************************)

ChainNameSeq == <<Str_a, Str_b, Str_c, Str_d, Str_e>>

\* The models of n fields named by the first n names in which every field
\* has at most one fragment that references another field (any other field,
\* so that every order of the names along a chain or a cycle occurs).  A
\* field without a reference has a literal fragment; with all_literal every
\* field has one.
RefTargets(n, i) == {0} \cup ((1..n) \ {i})

RefModel(n, target, all_literal) ==
    [ patterns |-> [i \in 1..n |->
          [ name |-> ChainNameSeq[i], whole |-> TRUE,
            fragments |->
               (IF target[i] = 0 THEN <<>>
                ELSE <<get_delimited_name(ChainNameSeq[target[i]])>>)
               \o (IF all_literal \/ target[i] = 0 THEN <<Str_x>> ELSE <<>>) ]],
      tense_patterns |-> None,
      conjunctions |-> None,
      tags_to_announce |-> None ]

RefModels ==
    UNION {{RefModel(n, target, all_literal) :
               target \in {t \in [1..n -> 0..n] : \A i \in 1..n : t[i] \in RefTargets(n, i)},
               all_literal \in BOOLEAN} :
           n \in 1..MaxChain}

Str_announce_title ==
    <<"a", "n", "n", "o", "u", "n", "c", "e", "_", "t", "i", "t", "l", "e">>
Str_announce_album ==
    <<"a", "n", "n", "o", "u", "n", "c", "e", "_", "a", "l", "b", "u", "m">>
Str_announce_artist ==
    <<"a", "n", "n", "o", "u", "n", "c", "e", "_", "a", "r", "t", "i", "s", "t">>

\* The input of tests::from_user_recursive_dependency (the digits of its
\* literals left out).
Test_recursive_dependency ==
    [ patterns |->
        << [ name |-> Str_announce_title, whole |-> TRUE,
             fragments |-> << <<"t", "i", "t", "l", "e">>, <<"t", "i", "t", "l", "e", "s">>,
                              <<"a", "b", "c", " ">> \o get_delimited_name(Str_announce_album)
                                  \o <<" ", "d", "e", "f">> >> ],
           [ name |-> Str_announce_album, whole |-> TRUE,
             fragments |-> << <<"a", "l", "b", "u", "m">>, <<"a", "l", "b", "u", "m", "s">>,
                              <<"g", "h", "i", " ", "j", "k", "l", " ">>
                                  \o get_delimited_name(Str_announce_artist) >> ],
           [ name |-> Str_announce_artist, whole |-> TRUE,
             fragments |-> << <<"a", "r", "t", "i", "s", "t">>, <<"a", "r", "t", "i", "s", "t", "s">>,
                              get_delimited_name(Str_announce_title)
                                  \o <<" ", "m", "n", "o", " ", "p", "q", "r">> >> ] >>,
      tense_patterns |-> None,
      conjunctions |-> None,
      tags_to_announce |-> None ]

Str_done == <<"d", "o", "n", "e">>

\* The input of tests::from_user_too_deep: the chain a -> b -> ... -> h.
Test_too_deep_names == <<Str_a, Str_b, Str_c, Str_d, Str_e, <<"f">>, <<"g">>, <<"h">>>>

Test_too_deep ==
    [ patterns |-> [i \in 1..8 |->
          [ name |-> Test_too_deep_names[i], whole |-> TRUE,
            fragments |->
               IF i <= 6 THEN <<get_delimited_name(Test_too_deep_names[i + 1])>>
               ELSE IF i = 7
                    THEN << <<" ">> \o get_delimited_name(Test_too_deep_names[8])
                                \o <<" ">> >>
                    ELSE << <<" ", " ">> \o Str_done \o <<" ", " ">> >> ]],
      tense_patterns |-> None,
      conjunctions |-> None,
      tags_to_announce |-> None ]

\* The depth limit that tests::from_user_too_deep passes.
Test_too_deep_limit == 5

InitChain ==
    \/ \E uo \in RefModels : \E limit \in 0..MaxChainDepth : Start(uo, limit)
    \/ Start(Test_recursive_dependency, DEFAULT_DEPTH_LIMIT)
    \/ Start(Test_too_deep, Test_too_deep_limit)

SpecChain == InitChain /\ [][NextParse]_vars

(***************************************************************************)
(* from_user on models that break the rules of its validation steps        *)
(***************************************************************************)

\* A literal; references to the user fields b and a, to a field nobody
\* defines, to the tense field and to a reserved field; words with one
\* delimiter, with two delimiters that do not span the word, with three and
\* with four delimiters; a reference with a character of two bytes; and a
\* fragment of two words.
ValidateFragments ==
    << Str_x,
       get_delimited_name(Str_b),
       get_delimited_name(Str_a),
       get_delimited_name(Str_c),
       get_delimited_name(Str_t),
       get_delimited_name(RESERVED_FIELD_ID),
       <<"x", "^">>,
       <<"^", "x", "^", "y">>,
       <<"y", "^", "x", "^">>,
       <<"^", "x", "^", "^">>,
       <<"^", "x", "^", "^", "y", "^">>,
       <<"^", "é", "^">>,
       <<"x", " ", "^", "c", "^">> >>

\* UserFields of no or one fragment.
ValidateFields ==
    {[name |-> n, whole |-> TRUE,
      fragments |-> [i \in 1..Len(s) |-> ValidateFragments[s[i]]]] :
        n \in FieldNames, s \in IncSeqs(Len(ValidateFragments), 1)}

\* No tense field; one; one with a reserved name, first and last; two of the
\* same name; one with the name of a UserField; and one whose texts are a
\* reference nobody defines and a malformed word.
ValidateTenses ==
    { None,
      Some(<<[name |-> Str_t, past |-> <<"w">>, present |-> <<"i">>]>>),
      Some(<<[name |-> RESERVED_FIELD_LABEL, past |-> <<"w">>, present |-> <<"i">>]>>),
      Some(<<[name |-> Str_t, past |-> <<"w">>, present |-> <<"i">>],
             [name |-> RESERVED_FIELD_LABEL, past |-> <<>>, present |-> <<>>]>>),
      Some(<<[name |-> Str_t, past |-> <<"w">>, present |-> <<"i">>],
             [name |-> Str_t, past |-> <<>>, present |-> <<>>]>>),
      Some(<<[name |-> Str_a, past |-> <<"w">>, present |-> <<"i">>]>>),
      Some(<<[name |-> Str_t, past |-> get_delimited_name(Str_c),
              present |-> <<"x", "^">>]>>) }

ValidateModels ==
    [ patterns : {<<>>} \cup {<<f>> : f \in ValidateFields}
                        \cup {<<f, g>> : f \in ValidateFields,
                                          g \in ValidateFields},
      tense_patterns : ValidateTenses,
      conjunctions : {None},
      tags_to_announce : {None} ]

InitValidate == \E uo \in ValidateModels : Start(uo, MaxDepth)

SpecValidate == InitValidate /\ [][NextParse]_vars

(***************************************************************************)
(* from_user on three fields a, b, c of which a refers to both others      *)
(***************************************************************************)

\* The fragments of field a: references to b and c in one fragment, a
\* reference to b, a literal, and references to c and to the tense field.
PruneFragments ==
    << get_delimited_name(Str_b) \o <<" ">> \o get_delimited_name(Str_c),
       get_delimited_name(Str_b),
       Str_x,
       get_delimited_name(Str_c) \o <<" ">> \o get_delimited_name(Str_t) >>

PruneModels ==
    { [ patterns |->
          << [name |-> Str_a, whole |-> TRUE,
              fragments |-> [i \in 1..Len(s) |-> PruneFragments[s[i]]]],
             [name |-> Str_b, whole |-> FALSE, fragments |-> fb],
             [name |-> Str_c, whole |-> FALSE, fragments |-> fc] >>,
        tense_patterns |-> t, conjunctions |-> None,
        tags_to_announce |-> None ] :
        s \in IncSeqs(Len(PruneFragments), MaxFrags),
        fb \in {<<Str_x>>, <<Str_x, Str_d>>, <<get_delimited_name(Str_c)>>},
        fc \in {<<Str_d>>, <<Str_d, Str_x>>, <<get_delimited_name(Str_t)>>},
        t \in {None,
               Some(<<[name |-> Str_t, past |-> <<"w">>, present |-> <<"i">>]>>)} }

InitPrune == \E uo \in PruneModels : \E limit \in 0..MaxDepth : Start(uo, limit)

SpecPrune == InitPrune /\ [][NextParse]_vars

(***************************************************************************)
(* from_user on reference graphs of three fields                           *)
(***************************************************************************)

DagNames == <<Str_a, Str_b, Str_c>>

\* The two fields that are not field i.
OthersOf(i) == SortSet({DagNames[j] : j \in (1..3) \ {i}})

\* The fragments of field i: a reference to either other field, both
\* references in one fragment, and a literal.
DagFragments(i) ==
    << get_delimited_name(OthersOf(i)[1]),
       get_delimited_name(OthersOf(i)[2]),
       get_delimited_name(OthersOf(i)[1]) \o <<" ">>
           \o get_delimited_name(OthersOf(i)[2]),
       Str_x >>

\* Three fields of up to two fragments each: graphs with and without a
\* cycle, in every order of the names.
DagModels ==
    { [ patterns |-> [i \in 1..3 |->
            [ name |-> DagNames[i], whole |-> TRUE,
              fragments |-> [k \in 1..Len(s[i]) |-> DagFragments(i)[s[i][k]]] ]],
        tense_patterns |-> None,
        conjunctions |-> None,
        tags_to_announce |-> None ] :
        s \in [1..3 -> IncSeqs(4, 2)] }

InitDag == \E uo \in DagModels : \E limit \in 0..MaxDepth : Start(uo, limit)

SpecDag == InitDag /\ [][NextParse]_vars

(***************************************************************************)
(* from_user on models with tense references in the fragments              *)
(***************************************************************************)

\* A tense reference beside a reserved reference, beside the reference to a
\* second tense field, and beside the reference to the user field b; and a
\* literal.
TenseFragments ==
    << get_delimited_name(Str_t) \o <<" ">> \o get_delimited_name(RESERVED_FIELD_TITLE),
       get_delimited_name(Str_t) \o <<" ">> \o get_delimited_name(Str_e),
       get_delimited_name(Str_b) \o <<" ">> \o get_delimited_name(Str_t),
       Str_x >>

\* The tense field t alone, t and e, t with a reserved reference in its past
\* text, and t with a reference to e in its past text.
TenseFieldChoices ==
    { <<[name |-> Str_t, past |-> <<"w">>, present |-> <<"i">>]>>,
      <<[name |-> Str_t, past |-> <<"w">>, present |-> <<"i">>],
        [name |-> Str_e, past |-> Str_d, present |-> Str_c]>>,
      <<[name |-> Str_t, past |-> get_delimited_name(RESERVED_FIELD_ID),
         present |-> <<"i">>]>>,
      <<[name |-> Str_t, past |-> get_delimited_name(Str_e), present |-> <<"i">>],
        [name |-> Str_e, past |-> Str_d, present |-> Str_c]>> }

\* The field a (whole or not) of up to two of these fragments, alone or with
\* a field b that is a literal or a tense reference.
TenseModels ==
    { [ patterns |-> <<[name |-> Str_a, whole |-> whole,
                        fragments |-> [i \in 1..Len(s) |-> TenseFragments[s[i]]]]>>
                         \o others,
        tense_patterns |-> Some(tense),
        conjunctions |-> None,
        tags_to_announce |-> None ] :
        whole \in BOOLEAN,
        s \in IncSeqs(Len(TenseFragments), 2),
        others \in {<<>>,
                    <<[name |-> Str_b, whole |-> TRUE, fragments |-> <<Str_x>>]>>,
                    <<[name |-> Str_b, whole |-> TRUE,
                       fragments |-> <<get_delimited_name(Str_t)>>]>>},
        tense \in TenseFieldChoices }

InitTense == \E uo \in TenseModels : Start(uo, MaxDepth)

SpecTense == InitTense /\ [][NextParse]_vars

(***************************************************************************)
(* script.rs: FieldSet                                                     *)
(***************************************************************************)

\* bitflags FieldSet: u32, held as the set of the positions of the bits set.
FieldSet_ID == {0}
FieldSet_PATH == {1}
FieldSet_PARENT == {2}
FieldSet_TRACK_NUMBER == {3}
FieldSet_DISC_NUMBER == {4}
FieldSet_TITLE == {5}
FieldSet_ARTIST == {6}
FieldSet_ALBUM_ARTIST == {7}
FieldSet_YEAR == {8}
FieldSet_ALBUM == {9}
FieldSet_ARTWORK == {10}
FieldSet_DURATION == {11}
FieldSet_LYRICIST == {12}
FieldSet_COMPOSER == {13}
FieldSet_GENRE == {14}
FieldSet_LABEL == {15}

FieldSet_empty == {}

\* The u32 of a FieldSet; Ord for FieldSet compares it.
RECURSIVE FieldSet_bits(_)
FieldSet_bits(set) ==
    IF set = {} THEN 0
    ELSE With(SetMax(set), LAMBDA m : 2 ^ m + FieldSet_bits(set \ {m}))

\* The keys of a BTreeMap<FieldSet, _> in iteration order.
RECURSIVE SortFieldSets(_)
SortFieldSets(S) ==
    IF S = {} THEN <<>>
    ELSE With(CHOOSE x \in S : \A y \in S : FieldSet_bits(x) <= FieldSet_bits(y),
              LAMBDA m : <<m>> \o SortFieldSets(S \ {m}))

DELIMITED_FIELD_TO_FIELDSET ==
    << <<get_delimited_name(RESERVED_FIELD_ID), FieldSet_ID>>,
       <<get_delimited_name(RESERVED_FIELD_PATH), FieldSet_PATH>>,
       <<get_delimited_name(RESERVED_FIELD_PARENT), FieldSet_PARENT>>,
       <<get_delimited_name(RESERVED_FIELD_TRACK_NUMBER), FieldSet_TRACK_NUMBER>>,
       <<get_delimited_name(RESERVED_FIELD_DISC_NUMBER), FieldSet_DISC_NUMBER>>,
       <<get_delimited_name(RESERVED_FIELD_TITLE), FieldSet_TITLE>>,
       <<get_delimited_name(RESERVED_FIELD_ARTIST), FieldSet_ARTIST>>,
       <<get_delimited_name(RESERVED_FIELD_ALBUM_ARTIST), FieldSet_ALBUM_ARTIST>>,
       <<get_delimited_name(RESERVED_FIELD_YEAR), FieldSet_YEAR>>,
       <<get_delimited_name(RESERVED_FIELD_ALBUM), FieldSet_ALBUM>>,
       <<get_delimited_name(RESERVED_FIELD_ARTWORK), FieldSet_ARTWORK>>,
       <<get_delimited_name(RESERVED_FIELD_DURATION), FieldSet_DURATION>>,
       <<get_delimited_name(RESERVED_FIELD_LYRICIST), FieldSet_LYRICIST>>,
       <<get_delimited_name(RESERVED_FIELD_COMPOSER), FieldSet_COMPOSER>>,
       <<get_delimited_name(RESERVED_FIELD_GENRE), FieldSet_GENRE>>,
       <<get_delimited_name(RESERVED_FIELD_LABEL), FieldSet_LABEL>> >>

iter_flags ==
    << FieldSet_ID, FieldSet_PATH, FieldSet_PARENT, FieldSet_TRACK_NUMBER,
       FieldSet_DISC_NUMBER, FieldSet_TITLE, FieldSet_ARTIST,
       FieldSet_ALBUM_ARTIST, FieldSet_YEAR, FieldSet_ALBUM, FieldSet_ARTWORK,
       FieldSet_DURATION, FieldSet_LYRICIST, FieldSet_COMPOSER, FieldSet_GENRE,
       FieldSet_LABEL >>

\* HashMap::get: the value stored under key in a list of (key, value) pairs.
lookup(pairs, key, default) ==
    IF \E i \in 1..Len(pairs) : pairs[i][1] = key
    THEN pairs[CHOOSE i \in 1..Len(pairs) : pairs[i][1] = key][2]
    ELSE default

FieldSet_from_word(value) ==
    lookup(DELIMITED_FIELD_TO_FIELDSET, value, FieldSet_empty)

RECURSIVE FieldSet_from_words(_)
FieldSet_from_words(words) ==
    IF words = <<>> THEN FieldSet_empty
    ELSE FieldSet_from_word(Head(words)) \cup FieldSet_from_words(Tail(words))

\* impl From<&str> for FieldSet
FieldSet_from(value) == FieldSet_from_words(SplitWhitespace(value))

update_from_tags(sets, inclusion, tag) ==
    CASE inclusion = "Required" -> [sets EXCEPT !.include = @ \cup tag]
      [] inclusion = "Optional" -> [sets EXCEPT !.optional = @ \cup tag]
      [] inclusion = "Exclude" -> [sets EXCEPT !.exclude = @ \cup tag]

from_tags_to_announce(tags) ==
    update_from_tags(update_from_tags(update_from_tags(update_from_tags(
    update_from_tags(update_from_tags(update_from_tags(update_from_tags(
    update_from_tags(update_from_tags(update_from_tags(update_from_tags(
        [include |-> FieldSet_empty, optional |-> FieldSet_empty,
         exclude |-> FieldSet_empty],
        tags.track_number, FieldSet_TRACK_NUMBER),
        tags.disc_number, FieldSet_DISC_NUMBER),
        tags.title, FieldSet_TITLE),
        tags.artist, FieldSet_ARTIST),
        tags.album_artist, FieldSet_ALBUM_ARTIST),
        tags.year, FieldSet_YEAR),
        tags.album, FieldSet_ALBUM),
        tags.duration, FieldSet_DURATION),
        tags.lyricist, FieldSet_LYRICIST),
        tags.composer, FieldSet_COMPOSER),
        tags.genre, FieldSet_GENRE),
        tags.label, FieldSet_LABEL)

(***************************************************************************)
(* script.rs: the text of a song's fields                                  *)
(***************************************************************************)

DecimalDigits == <<"0", "1", "2", "3", "4", "5", "6", "7", "8", "9">>

\* format!("{}", n) for a non-negative n
RECURSIVE DisplayNat(_)
DisplayNat(n) ==
    IF n < 10 THEN <<DecimalDigits[n + 1]>>
    ELSE DisplayNat(n \div 10) \o <<DecimalDigits[(n % 10) + 1]>>

\* format!("{}", n) for an i32
Display(n) == IF n < 0 THEN <<"-">> \o DisplayNat(-n) ELSE DisplayNat(n)

SayAsClose == <<"<", "/", "s", "a", "y", "-", "a", "s", ">">>

wrap_name(name, ssml) ==
    IF ~ssml THEN name
    ELSE <<"<", "s", "a", "y", "-", "a", "s", " ", "i", "n", "t", "e",
           "r", "p", "r", "e", "t", "-", "a", "s", "=", "\"",
           "n", "a", "m", "e", "\"", ">">>
         \o name \o SayAsClose

wrap_year(year, ssml) ==
    IF ~ssml THEN Display(year)
    ELSE <<"<", "s", "a", "y", "-", "a", "s", " ", "i", "n", "t", "e",
           "r", "p", "r", "e", "t", "-", "a", "s", "=", "\"",
           "d", "a", "t", "e", "\"", ">">>
         \o Display(year) \o SayAsClose

wrap_number(number, ssml) ==
    IF ~ssml THEN Display(number)
    ELSE <<"<", "s", "a", "y", "-", "a", "s", " ", "i", "n", "t", "e",
           "r", "p", "r", "e", "t", "-", "a", "s", "=", "\"",
           "c", "a", "r", "d", "i", "n", "a", "l", "\"", ">">>
         \o Display(number) \o SayAsClose

\* if let Some(x) = field { map.insert(flag, text) }: the pair, if any.
entry_if_some(field, flag, text) ==
    IF field = None THEN <<>> ELSE << <<flag, text>> >>

song_entries(s, ssml) ==
       entry_if_some(s.track_number, FieldSet_TRACK_NUMBER,
                     wrap_number(s.track_number[1], ssml))
    \o entry_if_some(s.disc_number, FieldSet_DISC_NUMBER,
                     wrap_number(s.disc_number[1], ssml))
    \o entry_if_some(s.title, FieldSet_TITLE, wrap_name(s.title[1], ssml))
    \o entry_if_some(s.artist, FieldSet_ARTIST, wrap_name(s.artist[1], ssml))
    \o entry_if_some(s.album_artist, FieldSet_ALBUM_ARTIST,
                     wrap_name(s.album_artist[1], ssml))
    \o entry_if_some(s.year, FieldSet_YEAR, wrap_year(s.year[1], ssml))
    \o entry_if_some(s.album, FieldSet_ALBUM, wrap_name(s.album[1], ssml))
    \o entry_if_some(s.duration, FieldSet_DURATION,
                     wrap_number(s.duration[1], ssml))
    \o entry_if_some(s.lyricist, FieldSet_LYRICIST,
                     wrap_name(s.lyricist[1], ssml))
    \o entry_if_some(s.composer, FieldSet_COMPOSER,
                     wrap_name(s.composer[1], ssml))
    \o entry_if_some(s.genre, FieldSet_GENRE, wrap_name(s.genre[1], ssml))
    \o entry_if_some(s.label, FieldSet_LABEL, wrap_name(s.label[1], ssml))

map_and_fieldset(entries) ==
    [ map |-> [k \in {entries[i][1] : i \in 1..Len(entries)} |->
                  lookup(entries, k, None)],
      set |-> UNION {entries[i][1] : i \in 1..Len(entries)} ]

\* (HashMap<FieldSet, String>, FieldSet) as [map, set]
extract_map_and_fieldset(s, ssml) == map_and_fieldset(song_entries(s, ssml))

(***************************************************************************)
(* script.rs: ScriptCache                                                  *)
(***************************************************************************)

\* The fragments of the whole fields of a map of fields.
whole_fragments(map) ==
    UNION {DOMAIN map[n].fragments : n \in {m \in DOMAIN map : map[m].whole}}

bucket_insert(self_map, fragments) ==
    [k \in (DOMAIN self_map) \cup {FieldSet_from(f) : f \in fragments} |->
        (IF k \in DOMAIN self_map THEN self_map[k] ELSE {})
            \cup {f \in fragments : FieldSet_from(f) = k}]

walk_map(self_map, map) == bucket_insert(self_map, whole_fragments(map))

cache_of(sets, opts_) ==
    [ past |-> walk_map(walk_map(EmptyMap, opts_.past), opts_.neutral),
      present |-> walk_map(walk_map(EmptyMap, opts_.present), opts_.neutral),
      include |-> sets.include,
      optional |-> sets.optional,
      exclude |-> sets.exclude ]

\* impl From<&AnnouncementOptions> for ScriptCache
ScriptCache_from(opts_) ==
    cache_of(from_tags_to_announce(opts_.tags_to_announce), opts_)

\* toml::from_str::<UserAnnouncementOptions>: a script text is held as its
\* format and the document it spells; only TOML text deserializes.
toml_from_str(opts_str) ==
    IF opts_str.format = "toml"
    THEN [res |-> "Ok", user_opts |-> opts_str.doc]
    ELSE [res |-> "FailedToDeserialize", user_opts |-> None]

create_from(parsed) ==
    IF parsed.res # "Ok" THEN [res |-> parsed.res, cache |-> None]
    ELSE [res |-> "Ok", cache |-> Some(ScriptCache_from(parsed.opts))]

create_compile(deserialized) ==
    IF deserialized.res # "Ok" THEN [res |-> deserialized.res, cache |-> None]
    ELSE create_from(from_user(deserialized.user_opts, DEFAULT_DEPTH_LIMIT))

\* Result<ScriptCache, Error> as [res, cache]
ScriptCache_create(opts_str) == create_compile(toml_from_str(opts_str))

\* The scan with set.intersects in place of set.contains as the test of
\* current_tag.
RECURSIVE subset_scan_intersecting(_, _, _, _, _)
subset_scan_intersecting(keys, index, set, start_point, found) ==
    IF index >= Len(keys) THEN found
    ELSE IF keys[index + 1] \cap set = {}
         THEN subset_scan_intersecting(keys, index + 1, set, start_point, found)
    ELSE IF index >= start_point THEN Some(keys[index + 1])
    ELSE subset_scan_intersecting(keys, index + 1, set, start_point,
                     IF found = None THEN Some(keys[index + 1]) ELSE found)

\* The scan with found = Some(..) assigned at every qualifying bucket before
\* the start point (no test of found.is_none()).
RECURSIVE subset_scan_keeps_last(_, _, _, _, _)
subset_scan_keeps_last(keys, index, set, start_point, found) ==
    IF index >= Len(keys) THEN found
    ELSE IF ~(keys[index + 1] \subseteq set)
         THEN subset_scan_keeps_last(keys, index + 1, set, start_point, found)
    ELSE IF index >= start_point THEN Some(keys[index + 1])
    ELSE subset_scan_keeps_last(keys, index + 1, set, start_point,
                                Some(keys[index + 1]))

\* for (index, (current_tag, current_set)) in map.iter().enumerate()
\* The bucket the scan returns, found being the bucket remembered so far.
RECURSIVE subset_scan(_, _, _, _, _)
subset_scan(keys, index, set, start_point, found) ==
    IF index >= Len(keys) THEN found
    ELSE IF ~(keys[index + 1] \subseteq set)
         THEN subset_scan(keys, index + 1, set, start_point, found)
    ELSE IF index >= start_point THEN Some(keys[index + 1])
    ELSE subset_scan(keys, index + 1, set, start_point,
                     IF found = None THEN Some(keys[index + 1]) ELSE found)

\* The (FieldSet, String) of a bucket: nth(rand_index) of its fragments.
pick(map, tag, random) ==
    IF tag = None THEN None
    ELSE With(SortSet(map[tag[1]]), LAMBDA current_set :
             Some([tag |-> tag[1],
                   str |-> current_set[(random % Len(current_set)) + 1]]))

\* random_start and random_index are the two values of rand::random that the
\* call uses.  Option<(FieldSet, String)> as [res, found]; the remainder by
\* map.len() panics for an empty map.
get_subset_tags(map, set, random_start, random_index) ==
    IF Cardinality(DOMAIN map) = 0 THEN [res |-> "Panic", found |-> None]
    ELSE [res |-> "Ok",
          found |-> pick(map,
                         subset_scan(SortFieldSets(DOMAIN map), 0, set,
                                     random_start % Cardinality(DOMAIN map),
                                     None),
                         random_index)]

\* One iteration of the loop of get_tag_announcement on the locals c, given
\* what get_subset_tags answered.
cover_step(c, r) ==
    IF r.res = "Panic" THEN [c EXCEPT !.pc = "done", !.res = "Panic"]
    ELSE IF r.found = None THEN [c EXCEPT !.pc = "substitute"]
    ELSE [c EXCEPT !.announcement = @ \o <<" ">> \o r.found[1].str,
                   !.need = @ \ r.found[1].tag,
                   !.have = @ \cup r.found[1].tag,
                   !.rounds = @ + 1]

\* The loop without its test filtered_optional & flag == flag: toggle sets
\* a flag of tails that is not set.
RECURSIVE toggle_flags_untested(_, _, _)
toggle_flags_untested(flags, filtered_optional, tails) ==
    IF flags = <<>> THEN filtered_optional
    ELSE toggle_flags_untested(Tail(flags),
                      IF Head(flags) \subseteq tails
                      THEN (filtered_optional \ Head(flags))
                               \cup (Head(flags) \ filtered_optional)
                      ELSE filtered_optional,
                      tails)

\* for flag in iter_flags(): the flags of tails are toggled off.
RECURSIVE toggle_flags(_, _, _)
toggle_flags(flags, filtered_optional, tails) ==
    IF flags = <<>> THEN filtered_optional
    ELSE toggle_flags(Tail(flags),
                      IF Head(flags) \subseteq filtered_optional
                         /\ Head(flags) \subseteq tails
                      THEN filtered_optional \ Head(flags)
                      ELSE filtered_optional,
                      tails)

\* The locals of get_announcement when it enters get_tag_announcement.
begin_call(self, extracted, present, enable_ssml, tails) ==
    With(((extracted.set \ self.exclude) \cap self.include)
             \cup toggle_flags(iter_flags,
                               (extracted.set \ self.exclude) \cap self.optional,
                               tails),
         LAMBDA set :
             [ pc |-> "cover", present |-> present, enable_ssml |-> enable_ssml,
               field_song |-> extracted.map, set |-> set, need |-> set,
               have |-> FieldSet_empty, announcement |-> <<>>, tmp |-> <<>>,
               rounds |-> 0, res |-> "Pending" ])

\* for word in tmp.split_whitespace(): [res, text]
RECURSIVE replace_words(_, _, _)
replace_words(words, announcement, field_song) ==
    IF words = <<>> THEN [res |-> "Ok", text |-> announcement]
    ELSE With(FieldSet_from_word(Head(words)), LAMBDA field :
             IF field = FieldSet_empty
             THEN replace_words(Tail(words), announcement, field_song)
             ELSE IF field \notin DOMAIN field_song
             THEN [res |-> "Panic", text |-> announcement]
             ELSE replace_words(Tail(words),
                                Replace(announcement, Head(words),
                                        field_song[field]),
                                field_song))

\* The end of get_announcement with Some(announcement) as its last
\* expression, whatever the announcement is.
finish_call_always_some(c, tmp, r) ==
    [c EXCEPT !.pc = "done", !.tmp = tmp, !.announcement = r.text,
              !.res = IF r.res = "Panic" THEN "Panic" ELSE "Some"]

\* The end of get_announcement on the locals c: tmp is the trimmed
\* announcement and r is what the loop over its words left.
finish_call(c, tmp, r) ==
    [c EXCEPT !.pc = "done", !.tmp = tmp, !.announcement = r.text,
              !.res = IF r.res = "Panic" THEN "Panic"
                      ELSE IF r.text = <<>> THEN "None" ELSE "Some"]

substitute(c, tmp) ==
    finish_call(c, tmp, replace_words(SplitWhitespace(tmp), tmp, c.field_song))

(***************************************************************************)
(* get_announcement as a process                                           *)
(***************************************************************************)

\* The bounds of the inputs.
MaxCover == 3

MaxRandom == 2

Str_y == <<"y">>

Tok_title == get_delimited_name(RESERVED_FIELD_TITLE)
Tok_artist == get_delimited_name(RESERVED_FIELD_ARTIST)
Tok_year == get_delimited_name(RESERVED_FIELD_YEAR)

Frag_title_by_artist == Tok_title \o <<" ", "b", "y", " ">> \o Tok_artist
Frag_from_year == <<"f", "r", "o", "m", " ">> \o Tok_year
Frag_tensed_title == get_delimited_name(Str_t) \o <<" ">> \o Tok_title

\* A fragment with a reference to a reserved field that is not announceable.
Frag_id_title == get_delimited_name(RESERVED_FIELD_ID) \o <<" ">> \o Tok_title

\* FieldsToAnnounce with the title excluded and the artist optional.
Tags_title_excluded ==
    [FieldsToAnnounce_default EXCEPT !.title = "Exclude", !.artist = "Optional"]

Doc(patterns, tense_patterns) ==
    [ patterns |-> patterns, tense_patterns |-> tense_patterns,
      conjunctions |-> None, tags_to_announce |-> None ]

\* The documents of the scripts: whole fields with one and two reserved
\* references, a tensed whole field, a whole fragment with no reserved
\* reference, no whole field, and no field at all.
RenderDocs ==
    { Doc(<< [name |-> Str_a, whole |-> TRUE,
              fragments |-> <<Frag_title_by_artist, Tok_title>>],
             [name |-> Str_b, whole |-> TRUE,
              fragments |-> <<Frag_from_year>>] >>, None),
      Doc(<< [name |-> Str_a, whole |-> TRUE,
              fragments |-> <<Frag_tensed_title, Tok_artist>>] >>,
          Some(<<[name |-> Str_t, past |-> <<"w">>, present |-> <<"i">>]>>)),
      Doc(<< [name |-> Str_a, whole |-> TRUE,
              fragments |-> <<Str_x, Tok_title>>] >>, None),
      Doc(<< [name |-> Str_a, whole |-> FALSE,
              fragments |-> <<Tok_title>>] >>, None),
      Doc(<< [name |-> Str_a, whole |-> TRUE,
              fragments |-> <<Frag_id_title, Tok_artist>>] >>, None),
      Doc(<<>>, None) }

RenderScripts ==
    {[format |-> "toml", doc |-> [d EXCEPT !.tags_to_announce = t]] :
        d \in RenderDocs, t \in {None, Some(Tags_title_excluded)}}

\* A Song with the given title, artist and year and no other tag.
SongOf(title, artist, year) ==
    [ track_number |-> None, disc_number |-> None, title |-> title,
      artist |-> artist, album_artist |-> None, year |-> year, album |-> None,
      duration |-> None, lyricist |-> None, composer |-> None, genre |-> None,
      label |-> None ]

Songs ==
    {SongOf(title, artist, year) :
        title \in {None, Some(Str_x), Some(Tok_artist)},
        artist \in {None, Some(Str_y)},
        year \in {None, Some(7)}}

\* The locals before get_announcement is called.
idle_call ==
    [ pc |-> "idle", present |-> FALSE, enable_ssml |-> FALSE,
      field_song |-> EmptyMap, set |-> FieldSet_empty, need |-> FieldSet_empty,
      have |-> FieldSet_empty, announcement |-> <<>>, tmp |-> <<>>,
      rounds |-> 0, res |-> "Pending" ]

compiled(created, s) ==
    /\ created.res = "Ok"
    /\ cache = created.cache[1]
    /\ song = s
    /\ call = idle_call
    /\ ParseIdle
    /\ ManagerIdle
    /\ AnnounceIdle

InitRender ==
    \E script \in RenderScripts : \E s \in Songs :
        compiled(ScriptCache_create(script), s)

\* The entry of get_announcement up to the call of get_tag_announcement;
\* tails holds the flags whose coin came up false.
GetAnnouncement ==
    /\ call.pc = "idle"
    /\ \E present \in BOOLEAN : \E enable_ssml \in BOOLEAN :
       \E tails \in SUBSET extract_map_and_fieldset(song, FALSE).set :
          call' = begin_call(cache, extract_map_and_fieldset(song, enable_ssml),
                             present, enable_ssml, tails)
    /\ UNCHANGED <<cache, song, parseVars, managerVars, announceVars>>

\* One test of the loop condition of get_tag_announcement and, when it
\* holds, one iteration.
Cover ==
    /\ call.pc = "cover"
    /\ IF call.need = FieldSet_empty
       THEN call' = [call EXCEPT !.pc = "substitute"]
       ELSE /\ call.rounds < MaxCover
            /\ \E random_start \in 0..MaxRandom :
               \E random_index \in 0..MaxRandom :
                  call' = cover_step(call,
                              get_subset_tags(IF call.present THEN cache.present
                                              ELSE cache.past,
                                              call.need, random_start,
                                              random_index))
    /\ UNCHANGED <<cache, song, parseVars, managerVars, announceVars>>

\* The rest of get_announcement: trim, substitute, and the Option returned.
Substitute ==
    /\ call.pc = "substitute"
    /\ call' = substitute(call, Trim(call.announcement))
    /\ UNCHANGED <<cache, song, parseVars, managerVars, announceVars>>

NextRender ==
    \/ GetAnnouncement
    \/ Cover
    \/ Substitute

SpecRender == InitRender /\ [][NextRender]_vars

(***************************************************************************)
(* get_subset_tags on bucket maps of its own                               *)
(***************************************************************************)

\* The most buckets of a map.
MaxBuckets == 3

Frag_by_artist == <<"b", "y", " ">> \o Tok_artist

\* Whole fragments with the signatures {}, {title}, {artist} (twice),
\* {title, artist} and {year}.
BucketFragments ==
    {Str_x, Tok_title, Tok_artist, Frag_by_artist, Frag_title_by_artist,
     Frag_from_year}

\* The maps that walk_map builds from some of these fragments; the map
\* without a bucket is one of them.
BucketMaps ==
    {m \in {bucket_insert(EmptyMap, fragments) :
                fragments \in SUBSET BucketFragments} :
        Cardinality(DOMAIN m) <= MaxBuckets}

NeededSets == SUBSET (FieldSet_TITLE \cup FieldSet_ARTIST \cup FieldSet_YEAR)

\* The arguments of get_subset_tags before the call; call holds the
\* arguments, the two random values and what the call returned.
InitSubset ==
    /\ cache = None
    /\ song = None
    /\ \E map \in BucketMaps : \E set \in NeededSets :
          call = [pc |-> "idle", map |-> map, set |-> set, random_start |-> 0,
                  random_index |-> 0, res |-> "Pending", found |-> None]
    /\ ParseIdle
    /\ ManagerIdle
    /\ AnnounceIdle

subset_returned(c, random_start, random_index, r) ==
    [c EXCEPT !.pc = "returned", !.random_start = random_start,
              !.random_index = random_index, !.res = r.res, !.found = r.found]

GetSubsetTags ==
    /\ call.pc = "idle"
    /\ \E random_start \in 0..MaxRandom : \E random_index \in 0..MaxRandom :
          call' = subset_returned(call, random_start, random_index,
                      get_subset_tags(call.map, call.set, random_start,
                                      random_index))
    /\ UNCHANGED <<cache, song, parseVars, managerVars, announceVars>>

NextSubset == GetSubsetTags

SpecSubset == InitSubset /\ [][NextSubset]_vars

(***************************************************************************)
(* mod.rs: Manager                                                         *)
(***************************************************************************)

Script(patterns) ==
    [format |-> "toml", doc |-> Doc(patterns, None)]

\* Two scripts that compile, one that fails to compile (SelfRecursion), and
\* a text that is no TOML.
ManagerScripts ==
    { Script(<<[name |-> Str_a, whole |-> TRUE, fragments |-> <<Tok_title>>]>>),
      Script(<<[name |-> Str_a, whole |-> TRUE, fragments |-> <<Tok_artist>>]>>),
      Script(<<[name |-> Str_a, whole |-> TRUE,
                fragments |-> <<get_delimited_name(Str_a)>>]>>),
      [format |-> "garbage", doc |-> None] }

\* ScriptCache::create, tabulated: each script of ManagerScripts is compiled
\* once.
CreatedScripts == [opts_str \in ManagerScripts |-> ScriptCache_create(opts_str)]

create_script(opts_str) == CreatedScripts[opts_str]

DEFAULT_URL == "http://devel.lan:12345/api/tts"

DEFAULT_TTS_KEY == "text"

UserSettings_default ==
    [scripts |-> None, enable_by_default |-> None, tts_people |-> <<>>]

UserSettings_is_valid(self) ==
    self.scripts # None /\ self.enable_by_default # None

UserSettings_is_people_valid(self) ==
    IF self.tts_people = <<>> THEN FALSE
    ELSE \A i \in 1..Len(self.tts_people) :
            ~(\/ self.tts_people[i].name = <<>>
              \/ self.tts_people[i].voice_model = <<>>
              \/ self.tts_people[i].language = <<>>)

AdminSettings_default ==
    [tts_url |-> None, tts_key |-> None, enable_ssml |-> FALSE]

AdminSettings_is_valid(self) == self.tts_url # None /\ self.tts_key # None

Manager_default ==
    [ enabled |-> FALSE, cache |-> None, url |-> DEFAULT_URL,
      tts_key |-> DEFAULT_TTS_KEY, enable_by_default |-> FALSE,
      enable_ssml |-> FALSE, tts_people |-> <<>> ]

\* include_str!("en_default_script.toml")
en_default_script_toml ==
    [ format |-> "toml",
      doc |-> [ patterns |-> << [name |-> Str_a, whole |-> TRUE,
                                 fragments |-> <<Tok_title>>] >>,
                tense_patterns |-> None, conjunctions |-> None,
                tags_to_announce |-> None ] ]

\* serde_json::to_string of the deserialized default script: the same
\* document spelled as JSON text.
en_default_script_json ==
    [ format |-> "json", doc |-> toml_from_str(en_default_script_toml).user_opts ]

\* Result::unwrap
unwrap(r) == IF r.res = "Ok" THEN r ELSE [r EXCEPT !.res = "Panic"]

\* impl Default for ScriptCache, as [res, cache]
ScriptCache_default == unwrap(ScriptCache_create(en_default_script_json))

\* Ok(Manager { enabled: true, cache: Some(created?), .. }) as [res, manager]
enabled_manager(admin_settings, user_settings, created, enable_by_default) ==
    IF created.res # "Ok" THEN [res |-> created.res, manager |-> None]
    ELSE [ res |-> "Ok",
           manager |-> Some([ enabled |-> TRUE,
                              cache |-> created.cache,
                              url |-> admin_settings.tts_url[1],
                              tts_key |-> admin_settings.tts_key[1],
                              enable_by_default |-> enable_by_default,
                              enable_ssml |-> admin_settings.enable_ssml,
                              tts_people |-> user_settings.tts_people ]) ]

\* Result<Manager, ParseError> as [res, manager]
Manager_create(admin_settings, user_settings) ==
    IF admin_settings = AdminSettings_default
       /\ user_settings = UserSettings_default
    THEN [res |-> "Ok", manager |-> Some(Manager_default)]
    ELSE IF admin_settings.enable_ssml
            /\ ~UserSettings_is_people_valid(user_settings)
    THEN [res |-> "Ok", manager |-> Some(Manager_default)]
    ELSE IF AdminSettings_is_valid(admin_settings)
            /\ UserSettings_is_valid(user_settings)
    THEN enabled_manager(admin_settings, user_settings,
                         create_script(user_settings.scripts[1]),
                         user_settings.enable_by_default[1])
    ELSE IF AdminSettings_is_valid(admin_settings)
    THEN enabled_manager(admin_settings, user_settings, ScriptCache_default,
                         FALSE)
    ELSE [res |-> "Ok", manager |-> Some(Manager_default)]

\* The part of update_user_settings after the script is compiled.
install_user_settings(self, user_settings, created) ==
    IF created.res # "Ok"
    THEN [res |-> created.res, manager |-> self, ret |-> None]
    ELSE [ res |-> "Ok",
           manager |-> [self EXCEPT
                           !.cache = created.cache,
                           !.enable_by_default =
                               user_settings.enable_by_default[1],
                           !.tts_people = user_settings.tts_people],
           ret |-> Some([ cache |-> self.cache,
                          enable_by_default |-> self.enable_by_default,
                          tts_people |-> self.tts_people ]) ]

\* update_user_settings with the cache taken out of the manager before the
\* script is compiled.
update_user_settings_takes_cache_first(self, user_settings) ==
    IF ~UserSettings_is_valid(user_settings)
    THEN [res |-> "InvalidInput", manager |-> self, ret |-> None]
    ELSE With(install_user_settings(self, user_settings,
                  create_script(user_settings.scripts[1])),
              LAMBDA r :
                  IF r.res = "Ok" THEN r
                  ELSE [r EXCEPT !.manager = [self EXCEPT !.cache = None]])

\* Result<RestorableUserSettings, ParseError> and the manager the call
\* leaves, as [res, manager, ret]
update_user_settings(self, user_settings) ==
    IF ~UserSettings_is_valid(user_settings)
    THEN [res |-> "InvalidInput", manager |-> self, ret |-> None]
    ELSE install_user_settings(self, user_settings,
                               create_script(user_settings.scripts[1]))

\* restore_user_settings that leaves the personas as they are.
restore_user_settings_keeps_tts_people(self, to_restore) ==
    [self EXCEPT !.cache = to_restore.cache,
                 !.enable_by_default = to_restore.enable_by_default]

restore_user_settings(self, to_restore) ==
    [self EXCEPT !.cache = to_restore.cache,
                 !.enable_by_default = to_restore.enable_by_default,
                 !.tts_people = to_restore.tts_people]

\* update_admin_settings that also turns the service on.
update_admin_settings_enables(self, admin_settings) ==
    IF ~AdminSettings_is_valid(admin_settings)
    THEN [res |-> "InvalidInput", manager |-> self, ret |-> None]
    ELSE [ res |-> "Ok",
           manager |-> [self EXCEPT !.enabled = TRUE,
                                    !.url = admin_settings.tts_url[1],
                                    !.tts_key = admin_settings.tts_key[1],
                                    !.enable_ssml = admin_settings.enable_ssml],
           ret |-> Some([ tts_url |-> Some(self.url),
                          tts_key |-> Some(self.tts_key),
                          enable_ssml |-> self.enable_ssml ]) ]

\* Result<AdminSettings, ParseError> and the manager the call leaves, as
\* [res, manager, ret]
update_admin_settings(self, admin_settings) ==
    IF ~AdminSettings_is_valid(admin_settings)
    THEN [res |-> "InvalidInput", manager |-> self, ret |-> None]
    ELSE [ res |-> "Ok",
           manager |-> [self EXCEPT !.url = admin_settings.tts_url[1],
                                    !.tts_key = admin_settings.tts_key[1],
                                    !.enable_ssml = admin_settings.enable_ssml],
           ret |-> Some([ tts_url |-> Some(self.url),
                          tts_key |-> Some(self.tts_key),
                          enable_ssml |-> self.enable_ssml ]) ]

\* Manager::get_announcement up to the call of the cache: the service is
\* disabled, the unwrap of self.cache.as_ref() panics, or the cache is asked
\* ("Ok"; what it answers is SpecRender's).
Manager_get_announcement(self) ==
    IF ~self.enabled THEN "RjServiceDisabled"
    ELSE IF self.cache = None THEN "Panic"
    ELSE "Ok"

(***************************************************************************)
(* The Manager as a process                                                *)
(***************************************************************************)

\* The number of RestorableUserSettings the caller holds on to.
MaxSaved == 1

\* No persona, a fully specified one, and one with no voice model.
PeopleChoices ==
    { <<>>,
      <<[name |-> Str_a, voice_model |-> Str_b, language |-> Str_c]>>,
      <<[name |-> Str_a, voice_model |-> <<>>, language |-> Str_c]>> }

UserSettingsChoices ==
    [ scripts : {None} \cup {Some(s) : s \in ManagerScripts},
      enable_by_default : {None, Some(TRUE), Some(FALSE)},
      tts_people : PeopleChoices ]

AdminSettingsChoices ==
    [ tts_url : {None, Some("http://tts.lan/say")},
      tts_key : {None, Some("q")},
      enable_ssml : BOOLEAN ]

created_manager(r) ==
    /\ r.res = "Ok"
    /\ manager = r.manager[1]
    /\ saved = <<>>
    /\ ret = [op |-> "create", res |-> "Ok"]
    /\ before = <<>>
    /\ ParseIdle
    /\ RenderIdle
    /\ AnnounceIdle

InitManager ==
    \E admin_settings \in AdminSettingsChoices :
    \E user_settings \in UserSettingsChoices :
        created_manager(Manager_create(admin_settings, user_settings))

\* The settings update_user_settings replaces, read off the Manager.
settings_of(self) ==
    [ cache |-> self.cache, enable_by_default |-> self.enable_by_default,
      tts_people |-> self.tts_people ]

\* s without its i-th element
Without(s, i) == SubSeq(s, 1, i - 1) \o SubSeq(s, i + 1, Len(s))

\* What a call that answered r leaves: the caller keeps the returned
\* RestorableUserSettings, or drops it when it already holds MaxSaved.
user_settings_updated(r) ==
    /\ manager' = r.manager
    /\ saved' = IF r.res = "Ok" /\ Len(saved) < MaxSaved
                THEN Append(saved, r.ret[1]) ELSE saved
    /\ before' = IF r.res = "Ok" /\ Len(saved) < MaxSaved
                 THEN Append(before, settings_of(manager)) ELSE before
    /\ ret' = [op |-> "update_user_settings", res |-> r.res]

UpdateUserSettings ==
    /\ \E user_settings \in UserSettingsChoices :
          user_settings_updated(update_user_settings(manager, user_settings))
    /\ UNCHANGED <<parseVars, renderVars, announceVars>>

\* The caller hands back one of the RestorableUserSettings it holds.
RestoreUserSettings ==
    /\ \E i \in 1..Len(saved) :
          /\ manager' = restore_user_settings(manager, saved[i])
          /\ saved' = Without(saved, i)
          /\ before' = Without(before, i)
    /\ ret' = [op |-> "restore_user_settings", res |-> "Ok"]
    /\ UNCHANGED <<parseVars, renderVars, announceVars>>

admin_settings_updated(r) ==
    /\ manager' = r.manager
    /\ ret' = [op |-> "update_admin_settings", res |-> r.res]

UpdateAdminSettings ==
    /\ \E admin_settings \in AdminSettingsChoices :
          admin_settings_updated(update_admin_settings(manager, admin_settings))
    /\ UNCHANGED <<saved, before, parseVars, renderVars, announceVars>>

\* Manager::get_announcement(&self, ..) for some song.
ManagerGetAnnouncement ==
    /\ ret' = [op |-> "get_announcement",
               res |-> Manager_get_announcement(manager)]
    /\ UNCHANGED <<manager, saved, before, parseVars, renderVars, announceVars>>

NextManager ==
    \/ UpdateUserSettings
    \/ RestoreUserSettings
    \/ UpdateAdminSettings
    \/ ManagerGetAnnouncement

SpecManager == InitManager /\ [][NextManager]_vars

(***************************************************************************)
(* Nested update_user_settings / restore_user_settings pairs: the caller   *)
(* undoes its updates in the reverse of the order it made them.            *)
(***************************************************************************)

\* The number of updates the caller has not undone yet.
MaxNest == 2

\* Two scripts that compile and one that does not; with and without a
\* persona.
NestSettingsChoices ==
    [ scripts : {None} \cup {Some(s) : s \in ManagerScripts \ {[format |-> "garbage", doc |-> None]}},
      enable_by_default : {Some(TRUE), Some(FALSE)},
      tts_people : {<<>>, <<[name |-> Str_a, voice_model |-> Str_b, language |-> Str_c]>>} ]

InitNest ==
    \E user_settings \in {UserSettings_default} \cup NestSettingsChoices :
        created_manager(Manager_create(
            [tts_url |-> Some("http://tts.lan/say"), tts_key |-> Some("q"),
             enable_ssml |-> FALSE], user_settings))

\* What a call that answered r leaves.
nest_updated(r) ==
    /\ manager' = r.manager
    /\ saved' = IF r.res = "Ok" THEN Append(saved, r.ret[1]) ELSE saved
    /\ before' = IF r.res = "Ok" THEN Append(before, settings_of(manager))
                 ELSE before
    /\ ret' = [op |-> "update_user_settings", res |-> r.res]

\* update_user_settings; the caller keeps what it returns on top of what it
\* holds already.
NestUpdate ==
    /\ Len(saved) < MaxNest
    /\ \E user_settings \in NestSettingsChoices :
          nest_updated(update_user_settings(manager, user_settings))
    /\ UNCHANGED <<parseVars, renderVars, announceVars>>

\* restore_user_settings with the RestorableUserSettings of the latest
\* update not undone yet.
NestRestore ==
    /\ saved # <<>>
    /\ manager' = restore_user_settings(manager, saved[Len(saved)])
    /\ saved' = Without(saved, Len(saved))
    /\ before' = Without(before, Len(before))
    /\ ret' = [op |-> "restore_user_settings", res |-> "Ok"]
    /\ UNCHANGED <<parseVars, renderVars, announceVars>>

NextNest ==
    \/ NestUpdate
    \/ NestRestore

SpecNest == InitNest /\ [][NextNest]_vars

(***************************************************************************)
(* announce.rs: get_announcement under the lock of index.rj_manager        *)
(***************************************************************************)

\* Manager::get_current_host: Option<&Person> as [res, host]; the index
\* tts_people[0] panics on an empty list.
get_current_host(self) ==
    IF ~self.enable_ssml THEN [res |-> "Ok", host |-> None]
    ELSE IF self.tts_people = <<>> THEN [res |-> "Panic", host |-> None]
    ELSE [res |-> "Ok", host |-> Some(self.tts_people[1])]

\* Whether Manager::build_packet returns ("Ok") or panics.
build_packet_res(self) == get_current_host(self).res

\* The statements of get_announcement that take a read guard: the three
\* calls of get_path_announcement, build_packet and get_speech.
Sites == <<"prev", "next", "next_next", "build_packet", "get_speech">>

\* A call of get_announcement that has not started.
new_request(request) ==
    [ request |-> request, site |-> 1, held |-> FALSE, in_flight |-> FALSE,
      res |-> "Pending" ]

\* let path = match path { Some(s) => s, None => return Ok("") }
path_of(q) == q.request[Sites[q.site]]

\* The call returns res; its guard, if any, is dropped.
returned(q, res) ==
    [q EXCEPT !.site = 0, !.held = FALSE, !.in_flight = FALSE, !.res = res]

\* The statement is done, its guard is dropped, the next statement follows.
next_site(q) == [q EXCEPT !.site = @ + 1, !.held = FALSE]

read_locked(r) ==
    /\ ~lock.writer
    /\ lock' = [lock EXCEPT !.readers = @ \cup {r}]
    /\ requests' = [requests EXCEPT ![r].held = TRUE]

read_unlocked(r, q) ==
    /\ lock' = [lock EXCEPT !.readers = @ \ {r}]
    /\ requests' = [requests EXCEPT ![r] = q]

(***************************************************************************)
(* Announcement requests and a settings update as processes                *)
(***************************************************************************)

\* The number of concurrent calls of get_announcement.
MaxRequests == 2

\* RjRequest: which of the three paths are given.
RjRequests ==
    [prev : {None, Some("p")}, next : {Some("n")}, next_next : {None}]
        \cup {[prev |-> None, next |-> None, next_next |-> None]}

\* The Managers behind the lock: the disabled default, and enabled ones with
\* and without markup and personas.
AnnounceCreated ==
    { Manager_create(a, u) :
        a \in {AdminSettings_default,
               [tts_url |-> Some("http://tts.lan/say"), tts_key |-> Some("q"),
                enable_ssml |-> FALSE]},
        u \in {UserSettings_default,
               [scripts |-> Some(en_default_script_toml),
                enable_by_default |-> Some(TRUE), tts_people |-> <<>>]} }

AnnounceManagers == {c.manager[1] : c \in {d \in AnnounceCreated : d.res = "Ok"}}

InitAnnounce ==
    /\ lock = [readers |-> {}, writer |-> FALSE]
    /\ requests \in [1..MaxRequests -> {new_request(q) : q \in RjRequests}]
    /\ updater = "idle"
    /\ manager \in AnnounceManagers
    /\ saved = <<>>
    /\ ret = None
    /\ before = <<>>
    /\ ParseIdle
    /\ RenderIdle

\* get_path_announcement up to rj_manager.read(): no path, no song for the
\* path, or the read guard taken.
GetPathAnnouncement(r) ==
    /\ requests[r].site \in 1..3
    /\ ~requests[r].held
    /\ IF path_of(requests[r]) = None
       THEN requests' = [requests EXCEPT ![r] = next_site(@)] /\ UNCHANGED lock
       ELSE \/ /\ requests' = [requests EXCEPT ![r] = returned(@, "FailedToBuild")]
               /\ UNCHANGED lock
            \/ read_locked(r)
    /\ UNCHANGED <<updater, parseVars, renderVars, managerVars>>

\* Manager::get_announcement under the read guard of get_path_announcement;
\* the text it returns is not tracked.
PathAnnounced(r) ==
    /\ requests[r].site \in 1..3
    /\ requests[r].held
    /\ read_unlocked(r, IF manager.enabled THEN next_site(requests[r])
                        ELSE returned(requests[r], "RjServiceDisabled"))
    /\ UNCHANGED <<updater, parseVars, renderVars, managerVars>>

\* index.rj_manager.read().unwrap() of the last two statements
ReadLock(r) ==
    /\ requests[r].site \in 4..5
    /\ ~requests[r].held
    /\ read_locked(r)
    /\ UNCHANGED <<updater, parseVars, renderVars, managerVars>>

BuildPacket(r) ==
    /\ requests[r].site = 4
    /\ requests[r].held
    /\ read_unlocked(r, IF build_packet_res(manager) = "Ok"
                        THEN next_site(requests[r])
                        ELSE returned(requests[r], "Panic"))
    /\ UNCHANGED <<updater, parseVars, renderVars, managerVars>>

\* Manager::get_speech under the read guard: RjServiceDisabled at once, or
\* the request is sent and the thread blocks on the answer.
GetSpeech(r) ==
    /\ requests[r].site = 5
    /\ requests[r].held
    /\ ~requests[r].in_flight
    /\ IF manager.enabled
       THEN requests' = [requests EXCEPT ![r].in_flight = TRUE] /\ UNCHANGED lock
       ELSE read_unlocked(r, returned(requests[r], "RjServiceDisabled"))
    /\ UNCHANGED <<updater, parseVars, renderVars, managerVars>>

\* The answer of the text-to-speech server arrives; get_speech and
\* get_announcement return and the temporary guard is dropped.
SpeechAnswered(r) ==
    /\ requests[r].in_flight
    /\ \E res \in {"Ok", "FailedToTTS"} :
          read_unlocked(r, returned(requests[r], res))
    /\ UNCHANGED <<updater, parseVars, renderVars, managerVars>>

\* A settings update calls rj_manager.write().
UpdateWanted ==
    /\ updater = "idle"
    /\ updater' = "waiting"
    /\ UNCHANGED <<lock, requests, parseVars, renderVars, managerVars>>

\* The write guard is granted when no guard is held.
WriteLock ==
    /\ updater = "waiting"
    /\ lock.readers = {}
    /\ ~lock.writer
    /\ lock' = [lock EXCEPT !.writer = TRUE]
    /\ updater' = "writing"
    /\ UNCHANGED <<requests, parseVars, renderVars, managerVars>>

\* update_admin_settings under the write guard, which is then dropped.
UpdateSettings ==
    /\ updater = "writing"
    /\ \E admin_settings \in AdminSettingsChoices :
          manager' = update_admin_settings(manager, admin_settings).manager
    /\ lock' = [lock EXCEPT !.writer = FALSE]
    /\ updater' = "idle"
    /\ UNCHANGED <<requests, saved, ret, before, parseVars, renderVars>>

NextAnnounce ==
    \/ \E r \in 1..MaxRequests : GetPathAnnouncement(r)
    \/ \E r \in 1..MaxRequests : PathAnnounced(r)
    \/ \E r \in 1..MaxRequests : ReadLock(r)
    \/ \E r \in 1..MaxRequests : BuildPacket(r)
    \/ \E r \in 1..MaxRequests : GetSpeech(r)
    \/ \E r \in 1..MaxRequests : SpeechAnswered(r)
    \/ UpdateWanted
    \/ WriteLock
    \/ UpdateSettings

SpecAnnounce == InitAnnounce /\ [][NextAnnounce]_vars

(***************************************************************************)
(* The shape of a user model                                               *)
(***************************************************************************)

NumFields(uo) == Len(uo.patterns)

\* Field i has a fragment that contains the delimited name of field j.
References(uo, i, j) ==
    \E k \in 1..Len(uo.patterns[i].fragments) :
        Contains(uo.patterns[i].fragments[k],
                 get_delimited_name(uo.patterns[j].name))

IsLiteral(fragment) == \A k \in 1..Len(fragment) : fragment[k] # FIELD_DELIMITER

DistinctNames(uo) ==
    \A i \in 1..NumFields(uo) : \A j \in 1..NumFields(uo) :
        i # j => uo.patterns[i].name # uo.patterns[j].name

\* more further references lead from field cur, through fields not yet seen,
\* back to field start.
RECURSIVE PathBack(_, _, _, _, _)
PathBack(uo, start, cur, seen, more) ==
    IF more = 1 THEN References(uo, cur, start)
    ELSE \E j \in (1..NumFields(uo)) \ seen :
             /\ References(uo, cur, j)
             /\ PathBack(uo, start, j, seen \cup {j}, more - 1)

\* L distinct fields form a reference cycle.
HasCycle(uo, L) == \E i \in 1..NumFields(uo) : PathBack(uo, i, i, {i}, L)

\* The lengths (2 or more) of the reference cycles among the user fields.
CycleLengths(uo) == {L \in 2..NumFields(uo) : HasCycle(uo, L)}

SelfReferencing(uo) == \E i \in 1..NumFields(uo) : References(uo, i, i)

\* The fragments of field i that are a reference to field j and nothing else.
RefsTo(uo, i, j) ==
    {k \in 1..Len(uo.patterns[i].fragments) :
        SplitWhitespace(uo.patterns[i].fragments[k]) =
            <<get_delimited_name(uo.patterns[j].name)>>}

Literals(uo, i) ==
    {k \in 1..Len(uo.patterns[i].fragments) :
        IsLiteral(uo.patterns[i].fragments[k])}

\* Field i refers to field j, and its other fragments are literals.
RefersOnlyTo(uo, i, j) ==
    /\ RefsTo(uo, i, j) # {}
    /\ RefsTo(uo, i, j) \cup Literals(uo, i) = 1..Len(uo.patterns[i].fragments)

\* Field i has fragments, all of them literals.
OnlyLiterals(uo, i) ==
    /\ Literals(uo, i) # {}
    /\ Literals(uo, i) = 1..Len(uo.patterns[i].fragments)

\* s lists all the fields of uo as a chain: each field's references are
\* references to the next field and nothing else, it has one at least, and
\* the last field has only literal fragments (one at least).
IsChainOrder(uo, s) ==
    /\ \A i \in 1..NumFields(uo) : \A j \in 1..NumFields(uo) : i # j => s[i] # s[j]
    /\ \A i \in 1..(NumFields(uo) - 1) : RefersOnlyTo(uo, s[i], s[i + 1])
    /\ OnlyLiterals(uo, s[NumFields(uo)])

\* The fields not yet seen form a chain that continues field i.
RECURSIVE ChainFrom(_, _, _)
ChainFrom(uo, i, seen) ==
    IF seen = 1..NumFields(uo) THEN OnlyLiterals(uo, i)
    ELSE \E j \in (1..NumFields(uo)) \ seen :
             RefersOnlyTo(uo, i, j) /\ ChainFrom(uo, j, seen \cup {j})

\* A chain of user fields that bottoms out in literals; it has
\* NumFields(uo) - 1 reference hops.
IsLiteralChain(uo) ==
    /\ NumFields(uo) >= 1
    /\ DistinctNames(uo)
    /\ uo.tense_patterns = None
    /\ \A i \in 1..NumFields(uo) : ~is_reserved(uo.patterns[i].name)
    /\ \E i \in 1..NumFields(uo) : ChainFrom(uo, i, {i})

Hops(uo) == NumFields(uo) - 1

(***************************************************************************)
(* Properties of from_user                                                 *)
(***************************************************************************)

Maps(o) == <<o.neutral, o.past, o.present>>

WordIsLiteralOrReserved(word) ==
    \/ IsLiteral(word)
    \/ is_field_name(word).val /\ is_reserved(strip_delimiters(word))

\* C1: whenever from_user returns Ok, every word of every fragment left in
\* the neutral, past and present maps is a literal word or a delimited
\* reference to a reserved field name.
C1_FullResolution ==
    result = "Ok" =>
        \A m \in 1..3 : \A n \in DOMAIN Maps(opts)[m] :
            \A f \in DOMAIN Maps(opts)[m][n].fragments :
                \A k \in 1..Len(SplitWhitespace(f)) :
                    WordIsLiteralOrReserved(SplitWhitespace(f)[k])

\* A compile that returned Ok for a model with a fragment "^b^ ^t^" (a user
\* reference and a tense reference), with a reserved reference in the past map.
C1_Witness ==
    /\ result = "Ok"
    /\ \E i \in 1..NumFields(user_opts) :
          \E k \in 1..Len(user_opts.patterns[i].fragments) :
              user_opts.patterns[i].fragments[k] = FragmentPool[6]
    /\ \E n \in DOMAIN opts.past : \E f \in DOMAIN opts.past[n].fragments :
          Contains(f, get_delimited_name(RESERVED_FIELD_ID))

\* build_map rejects the model: two UserFields share a name, or a
\* TensedUserField has the name of a UserField or of an earlier tense field.
DuplicateName(uo) ==
    \/ ~DistinctNames(uo)
    \/ /\ uo.tense_patterns # None
       /\ LET t == uo.tense_patterns[1]
          IN  \/ \E k \in 1..Len(t) : \E i \in 1..NumFields(uo) :
                    t[k].name = uo.patterns[i].name
              \/ \E k \in 1..Len(t) : \E j \in 1..Len(t) :
                    k # j /\ t[k].name = t[j].name

\* C2 as stated: a model in which some field has a fragment containing the
\* field's own delimited name always gets SelfRecursion.
C2_Original ==
    (pc = "done" /\ SelfReferencing(user_opts)) => result = "SelfRecursion"

\* C2, amended: such a model gets SelfRecursion for every depth_limit, unless
\* build_map rejects it first for a duplicate name, and then it gets
\* DuplicateFragment.
C2_SelfRecursion ==
    (pc = "done" /\ SelfReferencing(user_opts)) =>
        result = IF DuplicateName(user_opts) THEN "DuplicateFragment"
                 ELSE "SelfRecursion"

\* A self-referencing fragment that is more than the reference alone was
\* answered with SelfRecursion.
C2_Witness ==
    /\ pc = "done"
    /\ result = "SelfRecursion"
    /\ \E i \in 1..NumFields(user_opts) :
          \E k \in 1..Len(user_opts.patterns[i].fragments) :
              /\ Contains(user_opts.patterns[i].fragments[k],
                          get_delimited_name(user_opts.patterns[i].name))
              /\ user_opts.patterns[i].fragments[k] #
                     get_delimited_name(user_opts.patterns[i].name)

\* C3: in a model of user fields with distinct unreserved names, a reference
\* cycle over two or more fields that is shorter than depth_limit makes
\* from_user fail with RecursiveDependency or TooDeep, also
\* when the fields of the cycle have literal fragments; the 3-cycle of the
\* test from_user_recursive_dependency fails with RecursiveDependency at the
\* default depth limit.
C3_CycleFails ==
    /\ (pc = "done" /\ \E L \in CycleLengths(user_opts) : L < depth_limit)
           => result \in {"RecursiveDependency", "TooDeep"}
    /\ (pc = "done" /\ user_opts = Test_recursive_dependency
                    /\ depth_limit = DEFAULT_DEPTH_LIMIT)
           => result = "RecursiveDependency"

\* A 3-cycle whose fields all have a literal fragment, below the depth limit,
\* has been rejected.
C3_Witness ==
    /\ pc = "done"
    /\ 3 \in CycleLengths(user_opts)
    /\ 3 < depth_limit
    /\ \A i \in 1..NumFields(user_opts) :
          \E k \in 1..Len(user_opts.patterns[i].fragments) :
              IsLiteral(user_opts.patterns[i].fragments[k])
    /\ result = "RecursiveDependency"

\* C4: a chain of user fields that bottoms out in literals and has exactly
\* depth_limit reference hops compiles, whatever the names of its fields.
C4_ChainAtLimitCompiles ==
    (pc = "done" /\ Hops(user_opts) = depth_limit /\ IsLiteralChain(user_opts))
        => result = "Ok"

\* A chain of three hops at depth limit 3 has compiled, its head being the
\* field whose name sorts last.
C4_Witness ==
    /\ pc = "done"
    /\ result = "Ok"
    /\ depth_limit = 3
    /\ Hops(user_opts) = depth_limit
    /\ IsLiteralChain(user_opts)
    /\ \E s \in [1..4 -> 1..4] : IsChainOrder(user_opts, s) /\ s[1] = 4

HasEmptyField(uo) ==
    \E i \in 1..NumFields(uo) : uo.patterns[i].fragments = <<>>

WithoutEmptyFields(uo) ==
    [uo EXCEPT !.patterns = SelectSeq(@, LAMBDA f : f.fragments # <<>>)]

\* The model is valid but for its fields without fragments: it has no
\* duplicate name, the fields without fragments have no reserved name, and
\* the rest of it compiles.
OtherwiseValid(uo, limit) ==
    /\ ~DuplicateName(uo)
    /\ \A i \in 1..NumFields(uo) : ~is_reserved(uo.patterns[i].name)
    /\ from_user(WithoutEmptyFields(uo), limit).res = "Ok"

\* C6: an otherwise valid model with a UserField that has no fragments
\* compiles.
C6_EmptyFieldCompiles ==
    (pc = "done" /\ HasEmptyField(user_opts)
                 /\ OtherwiseValid(user_opts, depth_limit))
        => result = "Ok"

(***************************************************************************)
(* Properties of get_announcement                                            *)
(***************************************************************************)

\* C7: rendering never panics: get_announcement returns Some or None for
\* every compiled cache (one with empty bucket maps included) and every song.
C7_RenderNeverPanics == call.res # "Panic"

\* The reserved tokens whose field the song has, and where they start in s.
song_tokens(field_song) ==
    {i \in 1..Len(DELIMITED_FIELD_TO_FIELDSET) :
        DELIMITED_FIELD_TO_FIELDSET[i][2] \in DOMAIN field_song}

token_starts(s, tokens) ==
    UNION {Matches(s, DELIMITED_FIELD_TO_FIELDSET[i][1]) : i \in tokens}

token_at(s, tokens, at) ==
    DELIMITED_FIELD_TO_FIELDSET[
        CHOOSE i \in tokens : at \in Matches(s, DELIMITED_FIELD_TO_FIELDSET[i][1])]

\* s with every reserved token replaced, once, by the song's text for it.
RECURSIVE each_token_replaced(_, _)
each_token_replaced(s, field_song) ==
    IF token_starts(s, song_tokens(field_song)) = {} THEN s
    ELSE With(SetMin(token_starts(s, song_tokens(field_song))), LAMBDA at :
         With(token_at(s, song_tokens(field_song), at), LAMBDA e :
             SubSeq(s, 1, at - 1) \o field_song[e[2]]
                 \o each_token_replaced(SubSeq(s, at + Len(e[1]), Len(s)),
                                        field_song)))

\* C8: the string get_announcement returns is the selected fragments with
\* every reserved token replaced by exactly the song's text for that field,
\* whatever text the song's fields hold.
C8_TokensReplacedBySongText ==
    (call.pc = "done" /\ call.res = "Some")
        => call.announcement = each_token_replaced(call.tmp, call.field_song)

(***************************************************************************)
(* Properties of the Manager                                                 *)
(***************************************************************************)

\* C9: configuration update is all-or-nothing: a call of update_user_settings
\* or update_admin_settings that returns an error leaves every field of the
\* manager (and what the caller holds) exactly as before the call.
C9_UpdateIsAllOrNothing ==
    [][(/\ ret'.op \in {"update_user_settings", "update_admin_settings"}
        /\ ret'.res # "Ok")
           => (manager' = manager /\ saved' = saved)]_vars

\* An enabled manager with a cache whose update_user_settings failed to
\* compile the new script.
C9_Witness ==
    /\ ret.op = "update_user_settings"
    /\ ret.res = "SelfRecursion"
    /\ manager.enabled
    /\ manager.cache # None

\* C10: markup requires a persona in every reachable state: enable_ssml
\* implies that tts_people is non-empty and fully specified.
C10_MarkupRequiresPersona ==
    manager.enable_ssml
        => UserSettings_is_people_valid([tts_people |-> manager.tts_people])

(***************************************************************************)
(* Properties of the announcement request                                  *)
(***************************************************************************)

\* C11: the blocking text-to-speech call of an announcement request is made
\* while the request holds no guard of the lock around the Manager.
C11_SpeechOutsideLock ==
    \A r \in DOMAIN requests : requests[r].in_flight => r \notin lock.readers

(***************************************************************************)
(* Properties of update_user_settings and restore_user_settings            *)
(***************************************************************************)

\* C12: restore_user_settings with the value the latest update_user_settings
\* not undone yet returned puts cache, enable_by_default and tts_people of
\* the Manager back to what they were before that update, at every depth of
\* a nest of update/restore pairs undone in reverse order.
C12_RestoreIsRoundTrip ==
    [][Len(saved') < Len(saved)
         => settings_of(manager') = before[Len(before)]]_vars

\* The inner update of a nest of two has been undone, and it had changed
\* all three settings.
C12_Witness ==
    /\ ret.op = "restore_user_settings"
    /\ Len(saved) = 1
    /\ settings_of(manager).cache # before[1].cache
    /\ settings_of(manager).enable_by_default # before[1].enable_by_default
    /\ settings_of(manager).tts_people # before[1].tts_people

(***************************************************************************)
(* Properties of the validation steps of from_user                         *)
(***************************************************************************)

Range(seq) == {seq[i] : i \in 1..Len(seq)}

TensePatterns(uo) ==
    IF uo.tense_patterns = None THEN <<>> ELSE uo.tense_patterns[1]

\* A UserField or a TensedUserField has a reserved name.
HasReservedName(uo) ==
    \/ \E i \in 1..NumFields(uo) : is_reserved(uo.patterns[i].name)
    \/ \E k \in 1..Len(TensePatterns(uo)) :
          is_reserved(TensePatterns(uo)[k].name)

\* C13: a model with a neutral or tense field named like a reserved field is
\* rejected, and with FragmentUsesReservedName when it has no duplicate name
\* and no fragment that contains its own field's delimited name.
C13_ReservedNameRejected ==
    (pc = "done" /\ HasReservedName(user_opts)) =>
        /\ result \in {"DuplicateFragment", "SelfRecursion",
                       "FragmentUsesReservedName"}
        /\ (~DuplicateName(user_opts) /\ ~SelfReferencing(user_opts))
              => result = "FragmentUsesReservedName"

\* The last of two tense fields has a reserved name, no UserField has one,
\* and the model is rejected for it.
C13_Witness ==
    /\ pc = "done"
    /\ result = "FragmentUsesReservedName"
    /\ NumFields(user_opts) = 2
    /\ \A i \in 1..2 : ~is_reserved(user_opts.patterns[i].name)
    /\ Len(TensePatterns(user_opts)) = 2
    /\ is_reserved(TensePatterns(user_opts)[2].name)

\* Every word of every fragment of the UserFields is a literal or a reference.
WordsWellFormed(uo) ==
    \A i \in 1..NumFields(uo) : \A k \in 1..Len(uo.patterns[i].fragments) :
        \A w \in Range(SplitWhitespace(uo.patterns[i].fragments[k])) :
            is_field_name(w).ok

\* The names of the UserFields and of the TensedUserFields.
DefinedNames(uo) ==
    {uo.patterns[i].name : i \in 1..NumFields(uo)}
        \cup {TensePatterns(uo)[k].name : k \in 1..Len(TensePatterns(uo))}

\* The reference words of fragment k of field i that name neither a reserved
\* field nor a field of the model.
UnresolvableWords(uo, i, k) ==
    {w \in Range(SplitWhitespace(uo.patterns[i].fragments[k])) :
        /\ is_field_name(w).ok
        /\ is_field_name(w).val
        /\ ~is_reserved(strip_delimiters(w))
        /\ strip_delimiters(w) \notin DefinedNames(uo)}

HasUnresolvableWord(uo) ==
    \E i \in 1..NumFields(uo) : \E k \in 1..Len(uo.patterns[i].fragments) :
        UnresolvableWords(uo, i, k) # {}

\* C14: a model that passes the duplicate-name, self-dependency,
\* reserved-name and delimiter checks and has a fragment with a reference to a
\* name that is neither reserved nor a neutral nor a tense field is rejected
\* with ExpansionFailed.
C14_UnresolvableReferenceFails ==
    ( /\ pc = "done"
      /\ ~DuplicateName(user_opts)
      /\ ~SelfReferencing(user_opts)
      /\ ~HasReservedName(user_opts)
      /\ WordsWellFormed(user_opts)
      /\ HasUnresolvableWord(user_opts) )
        => result = "ExpansionFailed"

\* The reference nobody defines is the second word of the only fragment of
\* the second field; the first field and the tense field are fine.
C14_Witness ==
    /\ pc = "done"
    /\ result = "ExpansionFailed"
    /\ NumFields(user_opts) = 2
    /\ user_opts.patterns[1].fragments = <<get_delimited_name(Str_t)>>
    /\ user_opts.patterns[2].fragments = <<ValidateFragments[13]>>
    /\ UnresolvableWords(user_opts, 2, 1) = {get_delimited_name(Str_c)}
    /\ Len(TensePatterns(user_opts)) = 1

\* The maps as build_map leaves them.
Built(uo) == build_map(new_opts(uo), uo).opts

\* C15: from_user returns the error of the first rule the model breaks, in
\* the order duplicate name, self-dependency, reserved name, delimiters,
\* unresolvable reference, deflation, full resolution, pruning; the steps
\* after the failed one have not run (the maps are as the last step that ran
\* left them).
C15_FailFastInOrder ==
    /\ result # "Pending" <=> pc = "done"
    /\ pc = "done" =>
          With(user_opts, LAMBDA uo :
            /\ DuplicateName(uo) <=> result = "DuplicateFragment"
            /\ ~DuplicateName(uo) =>
                  /\ SelfReferencing(uo) <=> result = "SelfRecursion"
                  /\ ~SelfReferencing(uo) =>
                        /\ HasReservedName(uo)
                              <=> result = "FragmentUsesReservedName"
                        /\ ~HasReservedName(uo) =>
                              /\ ~WordsWellFormed(uo)
                                    <=> result \in {"OddNumberOfDelimiters",
                                                    "InterleavedDelimiter"}
                              /\ WordsWellFormed(uo) =>
                                    (HasUnresolvableWord(uo)
                                        <=> result = "ExpansionFailed")
            /\ result \in {"SelfRecursion", "FragmentUsesReservedName",
                            "OddNumberOfDelimiters", "InterleavedDelimiter",
                            "ExpansionFailed"} => opts = Built(uo)
            /\ result = "RecursiveDependency" =>
                  /\ opts.past = EmptyMap /\ opts.present = EmptyMap
                  /\ opts.tense = Built(uo).tense
            /\ result = "TooDeep" =>
                  deflate(Built(uo), depth_limit).res = "Ok")

\* A model that breaks four rules at once (a duplicate name that is reserved,
\* a fragment with its own field's reference and a malformed word) is
\* rejected for the first of them.
C15_Witness ==
    /\ pc = "done"
    /\ result = "DuplicateFragment"
    /\ SelfReferencing(user_opts)
    /\ HasReservedName(user_opts)
    /\ ~WordsWellFormed(user_opts)

\* What a word is by the characters it is made of: "literal" without a
\* delimiter, "reference" with exactly two delimiters that are its first and
\* its last character, "InterleavedDelimiter" with two delimiters elsewhere,
\* "OddNumberOfDelimiters" with any other number of them.
WordClass(w) ==
    With(Cardinality({i \in 1..Len(w) : w[i] = FIELD_DELIMITER}), LAMBDA n :
        IF n = 0 THEN "literal"
        ELSE IF n # 2 THEN "OddNumberOfDelimiters"
        ELSE IF w[1] = FIELD_DELIMITER /\ w[Len(w)] = FIELD_DELIMITER
             THEN "reference"
        ELSE "InterleavedDelimiter")

\* The classes of the words of the fragments of the UserFields.
WordClasses(uo) ==
    { WordClass(w) :
        w \in UNION { Range(SplitWhitespace(f)) :
                        f \in UNION { Range(uo.patterns[i].fragments) :
                                        i \in 1..NumFields(uo) } } }

\* C16: a model that gets to the delimiter check is rejected there exactly
\* when one of its words is neither a literal nor a reference, with
\* InterleavedDelimiter for a word of two delimiters that do not span it and
\* with OddNumberOfDelimiters for a word of one, three, four, ... delimiters.
C16_DelimiterClassification ==
    ( /\ pc = "done"
      /\ ~DuplicateName(user_opts)
      /\ ~SelfReferencing(user_opts)
      /\ ~HasReservedName(user_opts) )
        => /\ WordClasses(user_opts) \subseteq {"literal", "reference"}
                <=> result \notin {"InterleavedDelimiter",
                                   "OddNumberOfDelimiters"}
           /\ result \in {"InterleavedDelimiter", "OddNumberOfDelimiters"}
                => result \in WordClasses(user_opts)

\* C17: a model in which two UserFields, a TensedUserField and a UserField,
\* or two TensedUserFields share a name is rejected with DuplicateFragment,
\* whatever else is wrong with it and whatever fragments the entries have.
C17_DuplicateNameRejected ==
    (pc = "done" /\ DuplicateName(user_opts)) => result = "DuplicateFragment"

\* Two TensedUserFields share a name and so do two UserFields, of which the
\* second has no fragments and the first has a malformed word.
C17_Witness ==
    /\ pc = "done"
    /\ result = "DuplicateFragment"
    /\ NumFields(user_opts) = 2
    /\ user_opts.patterns[1].name = user_opts.patterns[2].name
    /\ user_opts.patterns[2].fragments = <<>>
    /\ ~WordsWellFormed(user_opts)
    /\ Len(TensePatterns(user_opts)) = 2
    /\ TensePatterns(user_opts)[1].name = TensePatterns(user_opts)[2].name

(***************************************************************************)
(* Properties of the inclusion policy and of the cover loop                *)
(***************************************************************************)

\* The announceable fields the song has a value for.
Populated(s) ==
    UNION { IF s.track_number = None THEN {} ELSE FieldSet_TRACK_NUMBER,
            IF s.disc_number = None THEN {} ELSE FieldSet_DISC_NUMBER,
            IF s.title = None THEN {} ELSE FieldSet_TITLE,
            IF s.artist = None THEN {} ELSE FieldSet_ARTIST,
            IF s.album_artist = None THEN {} ELSE FieldSet_ALBUM_ARTIST,
            IF s.year = None THEN {} ELSE FieldSet_YEAR,
            IF s.album = None THEN {} ELSE FieldSet_ALBUM,
            IF s.duration = None THEN {} ELSE FieldSet_DURATION,
            IF s.lyricist = None THEN {} ELSE FieldSet_LYRICIST,
            IF s.composer = None THEN {} ELSE FieldSet_COMPOSER,
            IF s.genre = None THEN {} ELSE FieldSet_GENRE,
            IF s.label = None THEN {} ELSE FieldSet_LABEL }

\* C18: when every announceable field the song has a value for is excluded,
\* get_announcement returns None, in either tense, with and without markup,
\* whatever the buckets of the cache hold.
C18_AllExcludedIsNone ==
    (call.pc = "done" /\ Populated(song) \subseteq cache.exclude)
        => call.res = "None"

\* The song has a title and nothing else, the title is excluded, the
\* present-tense buckets are not empty, and the call with markup in the
\* present tense has returned None.
C18_Witness ==
    /\ call.pc = "done"
    /\ call.res = "None"
    /\ call.present
    /\ call.enable_ssml
    /\ Populated(song) = FieldSet_TITLE
    /\ FieldSet_TITLE \subseteq cache.exclude
    /\ DOMAIN cache.present # {}

\* C19: every iteration of the loop of get_tag_announcement that selects a
\* bucket takes at least one bit out of need, so that the loop ends after at
\* most as many iterations as need has bits.
C19_SelectingShrinksNeed ==
    [][(call.pc = "cover" /\ call'.rounds = call.rounds + 1)
          => (call'.need \subseteq call.need /\ call'.need # call.need)]_vars

(***************************************************************************)
(* Properties of the used flags                                            *)
(***************************************************************************)

\* The (name, fragment) pairs that a call of replace_and_keep on the field
\* called name substitutes in.
SourcesOf(name, field, from) ==
    {<<name, f>> : f \in {g \in DOMAIN field.fragments : Contains(g, from)}}

\* The sources of the substitutions of one pass of deflate.
RECURSIVE PassSources(_, _, _, _)
PassSources(visits, temp, neutral, acc) ==
    IF visits = <<>> THEN acc
    ELSE With(replace_and_keep(neutral[Head(visits).map_name],
                               temp[Head(visits).tmp_name].delimited_name,
                               Head(visits).tmp_fragment),
              LAMBDA r :
                  IF r.res # "Ok" THEN acc
                  ELSE PassSources(Tail(visits), temp,
                           [neutral EXCEPT ![Head(visits).map_name] = r.field],
                           acc \cup SourcesOf(Head(visits).map_name,
                                       neutral[Head(visits).map_name],
                                       temp[Head(visits).tmp_name].delimited_name)))

\* The sources of the substitutions of the passes of deflate from pass i on.
RECURSIVE DeflateSources(_, _, _)
DeflateSources(neutral, i, limit) ==
    IF i >= limit \/ has_unresolved(neutral) # "true" THEN {}
    ELSE With(deflate_pass(deflate_visits(neutral), neutral, neutral),
              LAMBDA r :
                  PassSources(deflate_visits(neutral), neutral, neutral, {})
                      \cup (IF r.res # "Ok" THEN {}
                            ELSE DeflateSources(r.neutral, i + 1, limit)))

\* The sources of the substitutions of deflate_tense on the maps o.
TenseSources(o) ==
    UNION { SourcesOf(n, o.neutral[n], get_delimited_name(t)) :
                n \in DOMAIN o.neutral, t \in DOMAIN o.tense }

\* The fragments of the neutral map o.neutral that hold a reference to a
\* field that is not reserved.
Unresolved(o) ==
    UNION { {<<n, f>> : f \in {g \in DOMAIN o.neutral[n].fragments :
                \E w \in Range(SplitWhitespace(g)) :
                    /\ is_field_name(w).ok
                    /\ is_field_name(w).val
                    /\ ~is_reserved(strip_delimiters(w))}} :
            n \in DOMAIN o.neutral }

\* C20: when remove_unresolved answers Ok, every fragment of the neutral map
\* with a reference to a field that is not reserved (the fragments it
\* removes) has been the source of a substitution of deflate or of
\* deflate_tense.
C20_PrunedFragmentsWereSources ==
    [][(pc = "remove_unresolved" /\ result' = "Ok")
          => Unresolved(opts) \subseteq
                (DeflateSources(Built(user_opts).neutral, 0, depth_limit)
                    \cup TenseSources(opts))]_vars

\* The fields not yet seen form a chain that continues field i, and the name
\* of every field of it sorts before the name of the field it refers to.
RECURSIVE SortedChainFrom(_, _, _)
SortedChainFrom(uo, i, seen) ==
    IF seen = 1..NumFields(uo) THEN OnlyLiterals(uo, i)
    ELSE \E j \in (1..NumFields(uo)) \ seen :
             /\ RefersOnlyTo(uo, i, j)
             /\ StrLess(uo.patterns[i].name, uo.patterns[j].name)
             /\ SortedChainFrom(uo, j, seen \cup {j})

IsSortedChain(uo) ==
    /\ IsLiteralChain(uo)
    /\ \E i \in 1..NumFields(uo) : SortedChainFrom(uo, i, {i})

\* C21: a chain of user fields that bottoms out in literals and in which the
\* name of every field sorts before the name of the field it refers to
\* compiles for every depth_limit of 1 or more, also when it has more hops
\* than depth_limit; the chain a -> b -> ... -> h of the test
\* from_user_too_deep (7 hops) compiles at depth limit 5.
C21_SortedChainCompiles ==
    /\ (pc = "done" /\ depth_limit >= 1 /\ IsSortedChain(user_opts))
           => result = "Ok"
    /\ (pc = "done" /\ user_opts = Test_too_deep
                    /\ depth_limit = Test_too_deep_limit)
           => result = "Ok"

\* A chain of three hops in the order of its names has compiled at depth
\* limit 1.
C21_Witness ==
    /\ pc = "done"
    /\ result = "Ok"
    /\ depth_limit = 1
    /\ Hops(user_opts) = 3
    /\ IsSortedChain(user_opts)

\* The places (from 1) in the map's order of the buckets whose signature is a
\* subset of set.
Qualifying(map, set) ==
    {i \in 1..Cardinality(DOMAIN map) : SortFieldSets(DOMAIN map)[i] \subseteq set}

\* The qualifying buckets at or after the start index.
QualifyingFrom(map, set, random_start) ==
    {i \in Qualifying(map, set) : i - 1 >= random_start % Cardinality(DOMAIN map)}

\* The bucket the claim names: the first qualifying one at or after the
\* start index, otherwise the first qualifying one, otherwise none.
ExpectedBucket(map, set, random_start) ==
    IF QualifyingFrom(map, set, random_start) # {}
    THEN Some(SortFieldSets(DOMAIN map)[SetMin(QualifyingFrom(map, set, random_start))])
    ELSE IF Qualifying(map, set) # {}
    THEN Some(SortFieldSets(DOMAIN map)[SetMin(Qualifying(map, set))])
    ELSE None

\* C22: on a map with a bucket at least, get_subset_tags returns the first
\* bucket in map order at or after the random start index whose signature
\* is a subset of the needed set, otherwise the first such bucket before
\* the start index, otherwise None; so it returns None exactly when no
\* signature is a subset of the needed set, and the fragment it returns is
\* a member of the bucket it returns.
C22_BucketSearchWithFallback ==
    (call.pc = "returned" /\ call.map # EmptyMap) =>
        /\ call.res = "Ok"
        /\ (call.found = None) = (Qualifying(call.map, call.set) = {})
        /\ call.found # None =>
              /\ Some(call.found[1].tag) =
                     ExpectedBucket(call.map, call.set, call.random_start)
              /\ call.found[1].str \in call.map[call.found[1].tag]

\* The fallback has been returned: two buckets qualify before the start
\* index and none after it, and the fragment is the second of its bucket.
C22_Witness ==
    /\ call.pc = "returned"
    /\ call.found # None
    /\ Cardinality(Qualifying(call.map, call.set)) = 2
    /\ QualifyingFrom(call.map, call.set, call.random_start) = {}
    /\ Cardinality(call.map[call.found[1].tag]) = 2
    /\ call.found[1].str = SortSet(call.map[call.found[1].tag])[2]

\* required and optional of get_announcement, from the song's tags.
RequiredOf(c, s) == (Populated(s) \ c.exclude) \cap c.include

OptionalOf(c, s) == (Populated(s) \ c.exclude) \cap c.optional

\* The fields of the reserved references among the words of a text.
FieldsIn(text) ==
    UNION {FieldSet_from_word(w) : w \in Range(SplitWhitespace(text))}

\* C23: the needed set of a call of get_announcement holds every required
\* field and nothing but required and optional fields (required and
\* optional being the song's populated fields less the excluded ones, cut
\* with the include and the optional set); the set left to cover stays
\* within it; no excluded or unpopulated field is in it; and the words that
\* the call substitutes are references to fields of the needed set.
C23_InclusionPolicy ==
    (call.pc \in {"cover", "substitute", "done"}) =>
        /\ RequiredOf(cache, song) \subseteq call.set
        /\ call.set \subseteq RequiredOf(cache, song) \cup OptionalOf(cache, song)
        /\ call.need \subseteq call.set
        /\ call.set \cap cache.exclude = {}
        /\ call.set \subseteq Populated(song)
        /\ call.pc = "done" => FieldsIn(call.tmp) \subseteq call.set

\* A call has returned an announcement of the artist alone: the song has a
\* title that is excluded, an artist that is optional and was kept, and a
\* year that is optional and was dropped.
C23_Witness ==
    /\ call.pc = "done"
    /\ call.res = "Some"
    /\ FieldSet_TITLE \subseteq Populated(song) \cap cache.exclude
    /\ FieldSet_YEAR \subseteq OptionalOf(cache, song)
    /\ call.set = FieldSet_ARTIST
    /\ FieldsIn(call.tmp) = FieldSet_ARTIST

\* The maps of from_user after its step deflate.
AfterDeflate(uo, limit) == deflate(Built(uo), limit).opts

\* The tense fields that the fragment refers to.
TenseRefs(o, fragment) ==
    {t \in DOMAIN o.tense : Contains(fragment, get_delimited_name(t))}

\* The fragment with the references to the tense fields of names replaced by
\* their past texts (past = TRUE) or their present texts.
RECURSIVE Tensed(_, _, _, _)
Tensed(fragment, names, tense, past) ==
    IF names = {} THEN fragment
    ELSE With(MinStr(names), LAMBDA t :
             Tensed(Replace(fragment, get_delimited_name(t),
                            IF past THEN tense[t].past ELSE tense[t].present),
                    names \ {t}, tense, past))

\* The map holds, under the name and with the delimited_name and the whole
\* flag of field, the fragment.
HoldsFor(map, name, field, fragment) ==
    /\ name \in DOMAIN map
    /\ map[name].delimited_name = field.delimited_name
    /\ map[name].whole = field.whole
    /\ fragment \in DOMAIN map[name].fragments

\* The tense forms of the fragment f of the field n of d are in the past and
\* in the present map of o, and f is not in the neutral map of o.
TenseDeflated(d, o, n, f) ==
    /\ HoldsFor(o.past, n, d.neutral[n],
                Tensed(f, TenseRefs(d, f), d.tense, TRUE))
    /\ HoldsFor(o.present, n, d.neutral[n],
                Tensed(f, TenseRefs(d, f), d.tense, FALSE))
    /\ f \notin DOMAIN o.neutral[n].fragments

\* The words of the fragment that refer to a field that is neither reserved
\* nor a tense field of o.
UserRefs(o, fragment) ==
    {w \in Range(SplitWhitespace(fragment)) :
        /\ is_unresolved_word(w)
        /\ strip_delimiters(w) \notin DOMAIN o.tense}

\* The past and the present texts of the tense fields that the fragment
\* refers to are literals: none of their words refers to a field that is
\* not reserved.
TenseTextsAreLiteral(o, fragment) ==
    \A t \in TenseRefs(o, fragment) :
        \A w \in Range(SplitWhitespace(o.tense[t].past))
                  \cup Range(SplitWhitespace(o.tense[t].present)) :
            is_field_name(w).ok /\ ~is_unresolved_word(w)

\* C24 as stated: after a compile that returned Ok, every fragment that the
\* neutral map held after deflate and that refers to a tense field (of
\* literal texts) is in the past and in the present map in its tense form,
\* and not in the neutral map.
C24_Original ==
    (pc = "done" /\ result = "Ok") =>
        With(AfterDeflate(user_opts, depth_limit), LAMBDA d :
            \A n \in DOMAIN d.neutral : \A f \in DOMAIN d.neutral[n].fragments :
                (TenseRefs(d, f) # {} /\ TenseTextsAreLiteral(d, f))
                    => TenseDeflated(d, opts, n, f))

\* C24, amended: this holds for the fragments that refer to no user field
\* any more; a fragment that still refers to a user field after deflate
\* gets its tense forms too, but remove_unresolved prunes them from the past
\* and the present map.
C24_TenseDeflation ==
    (pc = "done" /\ result = "Ok") =>
        With(AfterDeflate(user_opts, depth_limit), LAMBDA d :
            \A n \in DOMAIN d.neutral : \A f \in DOMAIN d.neutral[n].fragments :
                /\ (TenseRefs(d, f) # {} /\ TenseTextsAreLiteral(d, f)
                                         /\ UserRefs(d, f) = {})
                       => TenseDeflated(d, opts, n, f)
                /\ (TenseRefs(d, f) # {} /\ UserRefs(d, f) # {})
                       => /\ f \notin DOMAIN opts.neutral[n].fragments
                          /\ \A g \in DOMAIN opts.past[n].fragments
                                       \cup DOMAIN opts.present[n].fragments :
                                UserRefs(d, g) = {})

\* A compile has returned Ok for a field that is not whole with a fragment
\* of two tense references, and for a fragment "^b^ ^t^" that deflate has
\* resolved to "x ^t^": the past map holds "w d" and "x w".
C24_Witness ==
    /\ pc = "done"
    /\ result = "Ok"
    /\ Str_a \in DOMAIN opts.past
    /\ ~opts.past[Str_a].whole
    /\ Cardinality(DOMAIN opts.tense) = 2
    /\ TenseFragments[2] \in DOMAIN AfterDeflate(user_opts, depth_limit).neutral[Str_a].fragments
    /\ TenseFragments[3] \in DOMAIN AfterDeflate(user_opts, depth_limit).neutral[Str_a].fragments
    /\ <<"x", " ", "w">> \in DOMAIN opts.past[Str_a].fragments
    /\ <<"w", " ", "d">> \in DOMAIN opts.past[Str_a].fragments

\* C25: from_user returns Ok or one of the errors of ParseError for every
\* user model and every depth_limit, also when the texts of a tense field
\* hold the delimiter; none of its steps aborts.
C25_CompilationIsTotal == result # "Panic"

\* What the statements of an announcement request read of the Manager.
Configuration(self) ==
    <<self.cache, self.enabled, self.enable_ssml, self.tts_people, self.url>>

\* The request has read the Manager under a guard of an earlier statement:
\* a path before its current statement is given, or build_packet is done.
HasObserved(q) ==
    \/ \E k \in 1..3 : k < q.site /\ q.request[Sites[k]] # None
    \/ q.site = 5

\* C26: the statements of one call of announce::get_announcement all read
\* the same configuration of the Manager: the configuration does not change
\* while a call that has read it under one guard has yet to read it under
\* the guard of build_packet or of get_speech.
C26_OneConfigurationPerRequest ==
    [][Configuration(manager') # Configuration(manager)
          => \A r \in DOMAIN requests :
                ~(requests[r].site \in 4..5 /\ HasObserved(requests[r]))]_vars

\* No field refers to itself and no reference cycle runs through two or
\* more fields.
Acyclic(uo) == ~SelfReferencing(uo) /\ CycleLengths(uo) = {}

\* The steps of from_user before deflate all answer Ok.
PassesChecks(uo) ==
    /\ build_map(new_opts(uo), uo).res = "Ok"
    /\ With(Built(uo), LAMBDA o :
           /\ has_self_dependency(o) = "Ok"
           /\ uses_reserved_name(o) = "Ok"
           /\ has_delimiter_only_at_start_end(o) = "Ok"
           /\ verify_missing_name(o) = "Ok")

\* C27: for a model whose references among the user fields form no cycle,
\* from_user returns neither SelfRecursion nor RecursiveDependency, for
\* every depth_limit; when the model passes the checks before deflate, the
\* only error that from_user returns is TooDeep.
C27_NoFalseCycleReport ==
    (pc = "done" /\ Acyclic(user_opts)) =>
        /\ result \notin {"SelfRecursion", "RecursiveDependency"}
        /\ PassesChecks(user_opts) => result \in {"Ok", "TooDeep", "Panic"}

\* A model without a cycle in which a has a fragment with two references and
\* b refers to c has been rejected with TooDeep, and the limit was not 0.
C27_Witness ==
    /\ pc = "done"
    /\ result = "TooDeep"
    /\ depth_limit >= 1
    /\ user_opts \in DagModels
    /\ Acyclic(user_opts)
    /\ PassesChecks(user_opts)
    /\ user_opts.patterns[1].fragments = <<DagFragments(1)[3]>>
    /\ References(user_opts, 2, 3)

\* C28: a Manager that is enabled has a cache, after Manager::create and
\* after every sequence of update_user_settings, update_admin_settings and
\* restore_user_settings on it; Manager::get_announcement does not unwrap
\* a missing cache, and it returns RjServiceDisabled exactly when the
\* Manager is not enabled.
C28_EnabledHasCache ==
    /\ manager.enabled => manager.cache # None
    /\ ret.op = "get_announcement" =>
          /\ ret.res # "Panic"
          /\ (ret.res = "RjServiceDisabled") = ~manager.enabled

\* get_announcement has asked the cache of an enabled Manager whose user
\* settings were updated (the caller holds the settings to restore) and
\* whose cache is not the one that the held settings would restore.
C28_Witness ==
    /\ ret = [op |-> "get_announcement", res |-> "Ok"]
    /\ manager.enabled
    /\ Len(saved) = 1
    /\ saved[1].cache # manager.cache

\* The names of the user fields of the model.
NamesOf(uo) == {uo.patterns[i].name : i \in 1..NumFields(uo)}

\* The ways to hand the names of the user fields round among the fields.
Renamings(uo) ==
    {rho \in [NamesOf(uo) -> NamesOf(uo)] :
        \A n \in NamesOf(uo) : \E m \in NamesOf(uo) : rho[m] = n}

\* Every fragment of the model is a literal or the reference to a user
\* field and nothing else.
PlainReferences(uo) ==
    \A i \in 1..NumFields(uo) : \A k \in 1..Len(uo.patterns[i].fragments) :
        \/ IsLiteral(uo.patterns[i].fragments[k])
        \/ \E n \in NamesOf(uo) :
              uo.patterns[i].fragments[k] = get_delimited_name(n)

\* The fragment with the name it refers to, if any, renamed.
RenamedFragment(fragment, rho) ==
    IF IsLiteral(fragment) THEN fragment
    ELSE get_delimited_name(rho[strip_delimiters(fragment)])

\* The model with its user fields renamed, in their names and in the
\* references to them.
Renamed(uo, rho) ==
    [uo EXCEPT !.patterns =
        [i \in 1..NumFields(uo) |->
            [uo.patterns[i] EXCEPT
                !.name = rho[@],
                !.fragments = [k \in 1..Len(@) |-> RenamedFragment(@[k], rho)]]]]

\* C29: at a given depth_limit, renaming the user fields of a model to other
\* names, distinct and not reserved, does not change whether from_user
\* returns Ok or an error.
C29_NamingIndependence ==
    (pc = "done" /\ DistinctNames(user_opts) /\ user_opts.tense_patterns = None
                 /\ PlainReferences(user_opts))
        => \A rho \in Renamings(user_opts) :
              (from_user(Renamed(user_opts, rho), depth_limit).res = "Ok")
                  = (result = "Ok")

\* The words of the text that are references to a reserved field, in their
\* order.
ReservedWords(text) ==
    SelectSeq(SplitWhitespace(text), LAMBDA w : FieldSet_from_word(w) # FieldSet_empty)

\* No reference to a reserved field occurs twice in the text.
EachReferenceOnce(text) ==
    \A i \in 1..Len(ReservedWords(text)) : \A j \in 1..Len(ReservedWords(text)) :
        i # j => ReservedWords(text)[i] # ReservedWords(text)[j]

\* C30: during and after the loop of get_tag_announcement, need and have
\* are disjoint and their union is the needed set that the loop started
\* from; the fields of the fragments chosen so far are the fields of have,
\* and no reserved field is referred to by two of the chosen fragments.
C30_CoverBookkeeping ==
    (call.pc \in {"cover", "substitute", "done"}) =>
        /\ call.need \cap call.have = {}
        /\ call.need \cup call.have = call.set
        /\ call.pc # "done" =>
              /\ FieldsIn(call.announcement) = call.have
              /\ EachReferenceOnce(call.announcement)

\* The loop has ended after two iterations that chose fragments of two
\* buckets, which cover the three needed fields between them.
C30_Witness ==
    /\ call.pc = "substitute"
    /\ call.rounds = 2
    /\ call.need = {}
    /\ call.have = FieldSet_TITLE \cup FieldSet_ARTIST \cup FieldSet_YEAR
    /\ Len(ReservedWords(call.announcement)) = 3

====
